---- MODULE Spec2Model ----
(***************************************************************************)
(* A model of gruntwork-io/fetch: the semver tag resolver (tag.go), the    *)
(* checksum engine (checksum.go), the archive request builders of the two  *)
(* forge drivers (source/github, source/gitlab) and the orchestrator       *)
(* (main.go: validateOptions, runFetchWithSource and the two download      *)
(* steps).                                                                 *)
(*                                                                         *)
(* Strings are sequences of one-character strings, so that indexing,       *)
(* trimming, parsing and strings.Contains are computed and not assumed.    *)
(* Errors are named by the error constant they carry; "nil" is no error.   *)
(***************************************************************************)
EXTENDS Integers, Sequences, FiniteSets, TLC

VARIABLES
    tagCall,      \* one call of getLatestAcceptableTag: its inputs, position and results
    sumCall,      \* one call of verifyChecksumOfReleaseAsset
    archCall,     \* one call of Source.MakeArchiveRequest
    extCall,      \* one call of extractFiles: archive, position, local file system
    pageCall,     \* one call of Source.FetchTags against a paginated forge
    urlCall,      \* one URL given to ParseUrl and to GetSource
    \* one run of runFetch:
    fetchOptions,    \* FetchOptions, as parseOptions built them
    pc,           \* where the orchestrator stands
    runErr,       \* the error the run returned, "nil" for none
    sourceType,   \* the source type the run selected
    tagsReply,    \* how the forge answered the tag listing
    fetchedTags,  \* what FetchTags returned
    desiredTag,   \* the tag the run resolved
    requests,     \* the kinds of forge requests issued so far
    archiveReq,   \* the archive request built by MakeArchiveRequest
    zip,          \* the temporary directory, the source paths and the extraction loop
    dl,           \* downloadReleaseAssetsWithSource: release, workers, channel, results
    files,        \* the asset files on disk: path -> content
    verified,     \* the asset paths whose checksum was accepted, in order
    stdout        \* what was written to c.App.Writer

runVars == <<fetchOptions, pc, runErr, sourceType, tagsReply, fetchedTags, desiredTag, requests, archiveReq,
             zip, dl, files, verified, stdout>>

\* the calls of the specifications that exercise one function
callVars == <<tagCall, sumCall, archCall, extCall, pageCall, urlCall>>

vars == <<callVars, runVars>>

----------------------------------------------------------------------------
(* Bounds of the model *)

\* longest tag list handed to getLatestAcceptableTag
MaxTags == 2

\* most pages a forge serves a tag list in
MaxPages == 3

----------------------------------------------------------------------------
(* Strings *)

Digits == <<"0", "1", "2", "3", "4", "5", "6", "7", "8", "9">>

IsDigit(c) == \E i \in 1..10 : Digits[i] = c

DigitVal(c) == CHOOSE i \in 0..9 : Digits[i + 1] = c

IsSpace(c) == c = " "

RECURSIVE Itoa(_)
Itoa(n) == IF n < 10 THEN <<Digits[n + 1]>>
           ELSE Itoa(n \div 10) \o <<Digits[(n % 10) + 1]>>

RECURSIVE Atoi(_)
Atoi(s) == IF s = <<>> THEN 0
           ELSE 10 * Atoi(SubSeq(s, 1, Len(s) - 1)) + DigitVal(s[Len(s)])

\* strings.Contains
Contains(s, sub) ==
    \E i \in 0..(Len(s) - Len(sub)) : SubSeq(s, i + 1, i + Len(sub)) = sub

HasPrefix(s, p) == Len(p) <= Len(s) /\ SubSeq(s, 1, Len(p)) = p

\* the element of a set of one: a value computed once and then named
The(S) == CHOOSE x \in S : TRUE

RECURSIVE TrimLeft(_)
TrimLeft(s) == IF s # <<>> /\ IsSpace(s[1]) THEN TrimLeft(Tail(s)) ELSE s

RECURSIVE TrimRight(_)
TrimRight(s) == IF s # <<>> /\ IsSpace(s[Len(s)])
                THEN TrimRight(SubSeq(s, 1, Len(s) - 1)) ELSE s

\* strings.TrimSpace
TrimSpace(s) == TrimRight(TrimLeft(s))

\* strings.Split(s, "."): the pieces between the dots, empty pieces kept
RECURSIVE SplitDots(_)
SplitDots(s) ==
    IF \A i \in 1..Len(s) : s[i] # "."
    THEN <<s>>
    ELSE LET d == CHOOSE i \in 1..Len(s) : s[i] = "." /\ \A j \in 1..(i - 1) : s[j] # "."
         IN  <<SubSeq(s, 1, d - 1)>> \o SplitDots(SubSeq(s, d + 1, Len(s)))

RECURSIVE JoinDots(_)
JoinDots(parts) ==
    IF Len(parts) = 0 THEN <<>>
    ELSE IF Len(parts) = 1 THEN parts[1]
    ELSE parts[1] \o <<".">> \o JoinDots(Tail(parts))

\* strings.Split(s, "/"): the pieces between the slashes, empty pieces kept
RECURSIVE SplitSlash(_)
SplitSlash(s) ==
    IF \A i \in 1..Len(s) : s[i] # "/"
    THEN <<s>>
    ELSE LET d == CHOOSE i \in 1..Len(s) : s[i] = "/" /\ \A j \in 1..(i - 1) : s[j] # "/"
         IN  <<SubSeq(s, 1, d - 1)>> \o SplitSlash(SubSeq(s, d + 1, Len(s)))

RECURSIVE JoinSlash(_)
JoinSlash(parts) ==
    IF Len(parts) = 0 THEN <<>>
    ELSE IF Len(parts) = 1 THEN parts[1]
    ELSE parts[1] \o <<"/">> \o JoinSlash(Tail(parts))

----------------------------------------------------------------------------
(* hashicorp/go-version as tag.go uses it, on versions without pre-release *)
(* or metadata parts: v?[0-9]+(\.[0-9]+)*                                  *)

AllDigits(s) == s # <<>> /\ \A i \in 1..Len(s) : IsDigit(s[i])

\* version.NewVersion: the regular expression, then the numeric segments
\* padded with zeros to three; si is the number of segments as written.
NewVersion(s) ==
    LET body  == IF s # <<>> /\ s[1] = "v" THEN Tail(s) ELSE s
        parts == SplitDots(body)
        ok    == \A i \in 1..Len(parts) : AllDigits(parts[i])
        nums  == [i \in 1..Len(parts) |-> Atoi(parts[i])]
    IN  IF ~ok THEN [ok |-> FALSE, segments |-> <<>>, si |-> 0, original |-> s]
        ELSE [ok |-> TRUE,
              segments |-> IF Len(nums) < 3
                           THEN nums \o [i \in 1..(3 - Len(nums)) |-> 0]
                           ELSE nums,
              si |-> Len(nums),
              original |-> s]

\* Version.String: the padded segments joined by dots, never the "v"
VersionString(v) == JoinDots([i \in 1..Len(v.segments) |-> Itoa(v.segments[i])])

Seg(v, i) == IF i <= Len(v.segments) THEN v.segments[i] ELSE 0

\* Version.Compare: -1, 0 or 1, segment by segment
RECURSIVE CompareFrom(_, _, _)
CompareFrom(a, b, i) ==
    IF i > Len(a.segments) /\ i > Len(b.segments) THEN 0
    ELSE IF Seg(a, i) < Seg(b, i) THEN -1
    ELSE IF Seg(a, i) > Seg(b, i) THEN 1
    ELSE CompareFrom(a, b, i + 1)

Compare(a, b) == CompareFrom(a, b, 1)

GreaterThan(a, b) == Compare(a, b) > 0

LessThan(a, b) == Compare(a, b) < 0

\* sort.Sort(version.Collection(versions)): ascending by LessThan
RECURSIVE Insert(_, _)
Insert(v, sorted) ==
    IF sorted = <<>> THEN <<v>>
    ELSE IF LessThan(v, sorted[1]) THEN <<v>> \o sorted
    ELSE <<sorted[1]>> \o Insert(v, Tail(sorted))

RECURSIVE SortVersions(_)
SortVersions(vs) ==
    IF vs = <<>> THEN <<>>
    ELSE Insert(vs[Len(vs)], SortVersions(SubSeq(vs, 1, Len(vs) - 1)))

\* the constraint operators of go-version, as written
ConstraintOps == { <<>>, <<"=">>, <<"!", "=">>, <<">">>, <<"<">>,
                   <<">", "=">>, <<"<", "=">>, <<"~", ">">> }

\* version.NewConstraint on an expression without commas:
\* ^\s*(op)\s*(version)\s*$ ; no match is "Malformed constraint"
NewConstraint(s) ==
    LET t    == TrimSpace(s)
        fits == { op \in ConstraintOps :
                    /\ HasPrefix(t, op)
                    /\ NewVersion(TrimLeft(SubSeq(t, Len(op) + 1, Len(t)))).ok }
    IN  IF fits = {} THEN [ok |-> FALSE, op |-> <<>>, check |-> NewVersion(<<>>)]
        ELSE LET op == CHOOSE o \in fits : TRUE
             IN  [ok |-> TRUE, op |-> op,
                  check |-> NewVersion(TrimLeft(SubSeq(t, Len(op) + 1, Len(t))))]

\* constraintPessimistic
ConstraintPessimistic(v, c) ==
    /\ ~LessThan(v, c)
    /\ Len(c.segments) <= Len(v.segments)
    /\ \A i \in 1..(c.si - 1) : v.segments[i] = c.segments[i]
    /\ c.segments[c.si] <= v.segments[c.si]

\* Constraints.Check
Check(con, v) ==
    LET c == con.check
    IN  CASE con.op = <<>>          -> Compare(v, c) = 0
          [] con.op = <<"=">>       -> Compare(v, c) = 0
          [] con.op = <<"!", "=">>  -> Compare(v, c) # 0
          [] con.op = <<">">>       -> Compare(v, c) = 1
          [] con.op = <<"<">>       -> Compare(v, c) = -1
          [] con.op = <<">", "=">>  -> Compare(v, c) >= 0
          [] con.op = <<"<", "=">>  -> Compare(v, c) <= 0
          [] con.op = <<"~", ">">>  -> ConstraintPessimistic(v, c)

----------------------------------------------------------------------------
(* tag.go *)

\* tag.go:65-70: from versions[0], the greatest version that passes the
\* constraint and is greater than the candidate so far
RECURSIVE LatestAcceptableFrom(_, _, _, _)
LatestAcceptableFrom(constraints, versions, i, latestAcceptableVersion) ==
    IF i > Len(versions) THEN latestAcceptableVersion
    ELSE LatestAcceptableFrom(constraints, versions, i + 1,
            IF Check(constraints, versions[i])
               /\ GreaterThan(versions[i], latestAcceptableVersion)
            THEN versions[i]
            ELSE latestAcceptableVersion)

LatestAcceptableVersion(constraints, versions) ==
    LatestAcceptableFrom(constraints, versions, 1, versions[1])

\* tag.go:72-77: the last tag of the list, in list order, whose spelling
\* contains the canonical version string; "" when none does
RECURSIVE OriginalTagName(_, _, _, _)
OriginalTagName(tags, canonical, i, latestTag) ==
    IF i > Len(tags) THEN latestTag
    ELSE OriginalTagName(tags, canonical, i + 1,
            IF Contains(tags[i], canonical) THEN tags[i] ELSE latestTag)

\* tag.go:29-80
getLatestAcceptableTag(tagConstraint, tags) ==
    IF Len(tags) = 0 THEN [latestTag |-> <<>>, err |-> "nil"]
    ELSE
    LET parsed == [i \in 1..Len(tags) |-> NewVersion(tags[i])]
    IN  IF \E i \in 1..Len(tags) : ~parsed[i].ok
        THEN [latestTag |-> <<>>, err |-> "wrapError"]
        ELSE
        LET versions    == SortVersions(parsed)
            expr        == IF tagConstraint = <<>>
                           THEN VersionString(versions[Len(versions)])
                           ELSE tagConstraint
            constraints == NewConstraint(expr)
        IN  IF ~constraints.ok
            THEN [latestTag |-> <<>>, err |-> "invalidTagConstraintExpression"]
            ELSE [latestTag |-> OriginalTagName(tags,
                                    VersionString(LatestAcceptableVersion(constraints, versions)),
                                    1, <<>>),
                  err |-> "nil"]

\* tag.go:10-27
isTagConstraintSpecificTag(tagConstraint) ==
    IF Len(tagConstraint) > 0
    THEN CASE tagConstraint[1] = "="
                -> [specific |-> TRUE, tag |-> TrimSpace(Tail(tagConstraint))]
           [] tagConstraint[1] \in {">", "<", "!", "~"}
                -> [specific |-> FALSE, tag |-> tagConstraint]
           [] OTHER
                -> [specific |-> TRUE, tag |-> TrimSpace(tagConstraint)]
    ELSE [specific |-> FALSE, tag |-> tagConstraint]

----------------------------------------------------------------------------
(* The inputs of the resolver *)

\* a tag as a forge spells it: an optional "v" and dotted numbers
Spell(prefix, nums) == prefix \o JoinDots([i \in 1..Len(nums) |-> Itoa(nums[i])])

\* a constraint expression: operator, optional blank, version
Expr(op, blank, nums) == op \o blank \o Spell(<<>>, nums)

TagUniverse ==
    { Spell(<<>>, <<1, 0>>),      Spell(<<"v">>, <<1, 0>>),
      Spell(<<>>, <<1, 0, 1>>),   Spell(<<"v">>, <<1, 0, 1>>),
      Spell(<<>>, <<1, 0, 10>>),  Spell(<<"v">>, <<1, 1, 0>>),
      Spell(<<>>, <<2, 0, 0>>),   <<"m", "a", "i", "n">> }

ConstraintUniverse ==
    { <<>>,
      Expr(<<"<">>, <<" ">>, <<1, 0, 5>>),
      Expr(<<"<", "=">>, <<" ">>, <<1, 0, 1>>),
      Expr(<<">">>, <<" ">>, <<1, 0, 5>>),
      Expr(<<">", "=">>, <<" ">>, <<1, 1>>),
      Expr(<<">">>, <<" ">>, <<2, 0, 0>>),
      Expr(<<"<">>, <<>>, <<1, 0>>),
      Expr(<<"!", "=">>, <<" ">>, <<1, 0, 10>>),
      Expr(<<"~", ">">>, <<" ">>, <<1, 0, 1>>),
      Expr(<<"~", ">">>, <<" ">>, <<1, 0>>),
      Expr(<<"~", ">">>, <<" ">>, <<1, 1, 1>>),
      <<"j", "o", "s", "h">> }

\* a version given as the expression: blanks, an optional "=", blanks, the
\* version, blanks
SpecificExprs ==
    { lead \o eq \o mid \o Spell(prefix, <<1, 0, 1>>) \o trail :
        lead \in { <<>>, <<" ">> }, eq \in { <<>>, <<"=">> }, mid \in { <<>>, <<" ">> },
        prefix \in { <<>>, <<"v">> }, trail \in { <<>>, <<" ">> } }

TagLists == UNION { [1..n -> TagUniverse] : n \in 0..MaxTags }

IdleCall == [pc |-> "idle"]

\* no run of runFetch takes place
RunIdle ==
    /\ fetchOptions = IdleCall /\ pc = "idle" /\ runErr = "nil" /\ sourceType = ""
    /\ tagsReply = "none"
    /\ fetchedTags = <<>> /\ desiredTag = <<>> /\ requests = {} /\ archiveReq = IdleCall
    /\ zip = IdleCall /\ dl = IdleCall /\ files = <<>> /\ verified = <<>> /\ stdout = <<>>

----------------------------------------------------------------------------
(* The resolver, called once on inputs drawn from the sets above *)

InitTag ==
    /\ tagCall \in { [pc |-> "call", tagConstraint |-> c, tags |-> ts,
                      latestTag |-> <<>>, err |-> "nil",
                      asked |-> FALSE, specific |-> FALSE, desiredTag |-> <<>>] :
                     c \in ConstraintUniverse \cup TagUniverse \cup SpecificExprs,
                     ts \in TagLists }
    /\ sumCall = IdleCall
    /\ archCall = IdleCall
    /\ extCall = IdleCall
    /\ pageCall = IdleCall
    /\ urlCall = IdleCall
    /\ RunIdle

GetLatestAcceptableTag ==
    /\ tagCall.pc = "call"
    /\ LET r == getLatestAcceptableTag(tagCall.tagConstraint, tagCall.tags)
       IN  tagCall' = [tagCall EXCEPT !.pc = "done",
                                      !.latestTag = r.latestTag,
                                      !.err = r.err]
    /\ UNCHANGED <<sumCall, archCall, extCall, pageCall, urlCall, runVars>>

\* one call of isTagConstraintSpecificTag on the same expression
IsTagConstraintSpecificTag ==
    /\ tagCall.pc \in {"call", "done"}
    /\ ~tagCall.asked
    /\ LET s == isTagConstraintSpecificTag(tagCall.tagConstraint)
       IN  tagCall' = [tagCall EXCEPT !.asked = TRUE,
                                      !.specific = s.specific,
                                      !.desiredTag = s.tag]
    /\ UNCHANGED <<sumCall, archCall, extCall, pageCall, urlCall, runVars>>

NextTag == GetLatestAcceptableTag \/ IsTagConstraintSpecificTag

SpecTag == InitTag /\ [][NextTag]_vars

----------------------------------------------------------------------------
(* What the claims about the resolver speak of *)

\* every tag of the list parses as a version
AllSemver(tags) == \A i \in 1..Len(tags) : NewVersion(tags[i]).ok

\* the tags of the list whose version satisfies the (well-formed) expression
Satisfying(expr, tags) ==
    { i \in 1..Len(tags) : Check(NewConstraint(expr), NewVersion(tags[i])) }

\* a call on a non-empty list of semver tags with a well-formed constraint
WellFormedCall ==
    /\ tagCall.pc = "done"
    /\ Len(tagCall.tags) > 0
    /\ AllSemver(tagCall.tags)
    /\ tagCall.tagConstraint # <<>>
    /\ NewConstraint(tagCall.tagConstraint).ok

\* C1: when some tag of a non-empty semver list satisfies the well-formed
\* constraint, the call returns without error one of the list's tags, in its
\* original spelling, whose version satisfies the constraint and is greater
\* than or equal to every tag of the list that satisfies it.
C1_LatestSatisfying ==
    (WellFormedCall /\ Satisfying(tagCall.tagConstraint, tagCall.tags) # {})
    => /\ tagCall.err = "nil"
       /\ \E i \in Satisfying(tagCall.tagConstraint, tagCall.tags) :
            /\ tagCall.latestTag = tagCall.tags[i]
            /\ \A j \in Satisfying(tagCall.tagConstraint, tagCall.tags) :
                 Compare(NewVersion(tagCall.tags[i]), NewVersion(tagCall.tags[j])) >= 0

\* C2: when no tag of a non-empty semver list satisfies the well-formed
\* constraint, the call returns an error and no tag.
C2_NoSuchTagIsError ==
    (WellFormedCall /\ Satisfying(tagCall.tagConstraint, tagCall.tags) = {})
    => /\ tagCall.err # "nil"
       /\ tagCall.latestTag = <<>>

\* C19: on a list of version tags, the call with one of the list's tags as
\* the expression returns that tag, in its spelling, and no error; so too
\* when another tag's spelling contains the canonical version of the tag
\* (1.0.1 beside 1.0.10) and when the tag has fewer than three segments (v1.0).
C19_LiteralIdentity ==
    (/\ tagCall.pc = "done"
     /\ AllSemver(tagCall.tags)
     /\ NewVersion(tagCall.tagConstraint).ok
     /\ \E i \in 1..Len(tagCall.tags) : tagCall.tags[i] = tagCall.tagConstraint)
    => /\ tagCall.err = "nil"
       /\ tagCall.latestTag = tagCall.tagConstraint

\* what is left of an expression without the blanks around it and without
\* one "=" and the blanks after it
BareVersion(expr) ==
    IF TrimSpace(expr) # <<>> /\ TrimSpace(expr)[1] = "="
    THEN TrimLeft(Tail(TrimSpace(expr)))
    ELSE TrimSpace(expr)

\* C20: isTagConstraintSpecificTag answers (true, the bare version) for an
\* expression made of blanks, an optional "=", blanks, a version and blanks,
\* and (false, the expression as given) for the empty expression and for
\* one that begins with one of > < ! ~.
C20_SpecificTag ==
    tagCall.asked
    => /\ NewVersion(BareVersion(tagCall.tagConstraint)).ok
            => /\ tagCall.specific
               /\ tagCall.desiredTag = BareVersion(tagCall.tagConstraint)
       /\ (\/ tagCall.tagConstraint = <<>>
           \/ tagCall.tagConstraint[1] \in {">", "<", "!", "~"})
            => /\ ~tagCall.specific
               /\ tagCall.desiredTag = tagCall.tagConstraint

\* the tags of the list that parse as versions, in list order
SemverOnly(tags) == SelectSeq(tags, LAMBDA t : NewVersion(t).ok)

\* C24: on a non-empty list with tags that do not parse as versions, and an
\* empty or well-formed constraint, the call returns no error and the tag it
\* returns for the list without those tags; the empty tag when no tag of the
\* list parses.
C24_NonSemverFiltered ==
    (/\ tagCall.pc = "done"
     /\ Len(tagCall.tags) > 0
     /\ ~AllSemver(tagCall.tags)
     /\ (tagCall.tagConstraint = <<>> \/ NewConstraint(tagCall.tagConstraint).ok))
    => /\ tagCall.err = "nil"
       /\ tagCall.latestTag
            = getLatestAcceptableTag(tagCall.tagConstraint, SemverOnly(tagCall.tags)).latestTag
       /\ SemverOnly(tagCall.tags) = <<>> => tagCall.latestTag = <<>>

----------------------------------------------------------------------------
(* checksum.go *)

Algorithms == {"sha256", "sha512", "md5", ""}

\* what a file may hold; "absent" is a path os.Open fails on
FileContents == {"hello", "world"}

Files == FileContents \cup {"absent"}

\* hex.EncodeToString(hasher.Sum(nil)): the digest of a content under an
\* algorithm, one string per pair (no collisions, and no digest shared
\* between the two algorithms)
hasherToString(algorithm, content) == <<algorithm, content>>

\* checksum.go:49-58
getHasher(algorithm) ==
    IF algorithm \in {"sha256", "sha512"}
    THEN [hasher |-> algorithm, err |-> "nil"]
    ELSE [hasher |-> "", err |-> "not supported"]

\* checksum.go:28-46
computeChecksum(file, algorithm) ==
    IF file = "absent" THEN [checksum |-> <<>>, err |-> "open"]
    ELSE IF getHasher(algorithm).err # "nil"
    THEN [checksum |-> <<>>, err |-> getHasher(algorithm).err]
    ELSE [checksum |-> hasherToString(getHasher(algorithm).hasher, file), err |-> "nil"]

\* checksumMap[key] of a Go map[string]bool: false for a key it does not hold
MapLookup(checksumMap, key) ==
    IF key \in DOMAIN checksumMap THEN checksumMap[key] ELSE FALSE

\* a verification that accepts whatever digest it computed
verifyChecksumOfReleaseAsset_AcceptsAny(file, checksumMap, algorithm) ==
    IF computeChecksum(file, algorithm).err # "nil"
    THEN "errorWhileComputingChecksum"
    ELSE "nil"

\* checksum.go:14-26
verifyChecksumOfReleaseAsset(file, checksumMap, algorithm) ==
    LET computed == computeChecksum(file, algorithm)
    IN  IF computed.err # "nil" THEN "errorWhileComputingChecksum"
        ELSE IF ~MapLookup(checksumMap, computed.checksum) THEN "checksumDoesNotMatch"
        ELSE "nil"

\* the digests a user may pass with --release-asset-checksum
ChecksumUniverse ==
    { hasherToString("sha256", "hello"), hasherToString("sha256", "world"),
      hasherToString("sha512", "hello"), <<"0", "0">> }

\* main.go:512-514: every checksum given is a key mapped to true
ChecksumMaps == UNION { [S -> {TRUE}] : S \in SUBSET ChecksumUniverse }

InitSum ==
    /\ sumCall \in { [pc |-> "call", file |-> f, checksumMap |-> m,
                      algorithm |-> a, err |-> "nil"] :
                     f \in Files, m \in ChecksumMaps, a \in Algorithms }
    /\ tagCall = IdleCall
    /\ archCall = IdleCall
    /\ extCall = IdleCall
    /\ pageCall = IdleCall
    /\ urlCall = IdleCall
    /\ RunIdle

VerifyChecksumOfReleaseAsset ==
    /\ sumCall.pc = "call"
    /\ sumCall' = [sumCall EXCEPT
            !.pc = "done",
            !.err = verifyChecksumOfReleaseAsset(sumCall.file, sumCall.checksumMap,
                                                 sumCall.algorithm)]
    /\ UNCHANGED <<tagCall, archCall, extCall, pageCall, urlCall, runVars>>

NextSum == VerifyChecksumOfReleaseAsset

SpecSum == InitSum /\ [][NextSum]_vars

\* C4: for sha256 and sha512, on a file whose digest computeChecksum returns,
\* the verification returns no error exactly when that digest is in the
\* acceptable set and checksumDoesNotMatch otherwise; for any other algorithm
\* name it returns an error.
C4_VerifyIffMember ==
    sumCall.pc = "done"
    => LET computed == computeChecksum(sumCall.file, sumCall.algorithm)
       IN  /\ (sumCall.algorithm \in {"sha256", "sha512"} /\ computed.err = "nil")
                => /\ (sumCall.err = "nil")
                        <=> (computed.checksum \in DOMAIN sumCall.checksumMap)
                   /\ sumCall.err \in {"nil", "checksumDoesNotMatch"}
           /\ sumCall.algorithm \notin {"sha256", "sha512"} => sumCall.err # "nil"

\* C4 witness: a sha512 digest that is in a set of several digests was
\* accepted
C4_Witness ==
    /\ sumCall.pc = "done"
    /\ sumCall.algorithm = "sha512"
    /\ sumCall.err = "nil"
    /\ Cardinality(DOMAIN sumCall.checksumMap) > 1

----------------------------------------------------------------------------
(* source/github/github.go and source/gitlab/types.go: MakeArchiveRequest *)

\* url.QueryEscape, on the characters refs are written with here
RECURSIVE QueryEscape(_)
QueryEscape(s) ==
    IF s = <<>> THEN <<>>
    ELSE (CASE s[1] = "/" -> <<"%", "2", "F">>
            [] s[1] = " " -> <<"+">>
            [] OTHER      -> <<s[1]>>) \o QueryEscape(Tail(s))

\* url.PathEscape, likewise
RECURSIVE PathEscape(_)
PathEscape(s) ==
    IF s = <<>> THEN <<>>
    ELSE (CASE s[1] = "/" -> <<"%", "2", "F">>
            [] s[1] = " " -> <<"%", "2", "0">>
            [] OTHER      -> <<s[1]>>) \o PathEscape(Tail(s))

\* source/factory.go:163-166
encodeProjectPath(owner, name) == PathEscape(owner \o <<"/">> \o name)

NoRequest == [url |-> <<>>, header |-> <<>>]

\* github.go:181-192: the hierarchy CommitSha > BranchName > GitTag > GitRef;
\* <<>> stands for the final else, where no field is set
GitHubGitRef(commit) ==
    IF commit.CommitSha # <<>> THEN commit.CommitSha
    ELSE IF commit.BranchName # <<>> THEN commit.BranchName
    ELSE IF commit.GitTag # <<>> THEN commit.GitTag
    ELSE IF commit.GitRef # <<>> THEN commit.GitRef
    ELSE <<>>

\* a hierarchy that lets the generic ref win over the tag
GitLabGitRef_RefBeforeTag(commit) ==
    IF commit.CommitSha # <<>> THEN commit.CommitSha
    ELSE IF commit.BranchName # <<>> THEN commit.BranchName
    ELSE IF commit.GitRef # <<>> THEN commit.GitRef
    ELSE commit.GitTag

\* gitlab/types.go:728-739: the same hierarchy, written again in this driver
GitLabGitRef(commit) ==
    IF commit.CommitSha # <<>> THEN commit.CommitSha
    ELSE IF commit.BranchName # <<>> THEN commit.BranchName
    ELSE IF commit.GitTag # <<>> THEN commit.GitTag
    ELSE IF commit.GitRef # <<>> THEN commit.GitRef
    ELSE <<>>

\* github.go:179-207
GitHubMakeArchiveRequest(commit, token) ==
    LET gitRef == GitHubGitRef(commit)
    IN  IF gitRef = <<>> THEN [req |-> NoRequest, err |-> "no git reference specified"]
        ELSE [req |-> [url |-> <<"https://">> \o commit.Repo.ApiUrl \o <<"/repos/">>
                                \o commit.Repo.Owner \o <<"/">> \o commit.Repo.Name
                                \o <<"/zipball/">> \o gitRef,
                       header |-> IF token # <<>>
                                  THEN <<"Authorization", <<"token ">> \o token>>
                                  ELSE <<>>],
              err |-> "nil"]

\* gitlab/types.go:726-757
GitLabMakeArchiveRequest(commit, token) ==
    LET gitRef == GitLabGitRef(commit)
    IN  IF gitRef = <<>> THEN [req |-> NoRequest, err |-> "no git reference specified"]
        ELSE [req |-> [url |-> <<"https://">> \o commit.Repo.ApiUrl
                                \o <<"/api/v4/projects/">>
                                \o encodeProjectPath(commit.Repo.Owner, commit.Repo.Name)
                                \o <<"/repository/archive.zip?sha=">>
                                \o QueryEscape(gitRef),
                       header |-> IF token # <<>> THEN <<"PRIVATE-TOKEN", token>>
                                  ELSE <<>>],
              err |-> "nil"]

\* Source.MakeArchiveRequest of the driver
MakeArchiveRequest(driver, commit, token) ==
    IF driver = "gitlab" THEN GitLabMakeArchiveRequest(commit, token)
    ELSE GitHubMakeArchiveRequest(commit, token)

\* the repositories the drivers' ParseUrl hands over
RepoOf(driver) ==
    IF driver = "gitlab"
    THEN [ApiUrl |-> <<"gitlab.com">>, Owner |-> <<"group", "/", "sub">>, Name |-> <<"proj">>]
    ELSE [ApiUrl |-> <<"api.github.com">>, Owner |-> <<"foo">>, Name |-> <<"bar">>]

Drivers == {"github", "gitlab"}

Tokens == { <<>>, <<"s", "3", "c">> }

ShaUniverse == { <<>>, <<"a", "1", "b", "2">> }

BranchUniverse == { <<>>, <<"f", "/", "x">>, <<"d", "e", "v">> }

GitTagUniverse == { <<>>, <<"v", "1", ".", "0">>, <<"r", " ", "1">> }

GitRefUniverse == { <<>>, <<"m", "a", "i", "n">>, <<"h", "/", "y">> }

\* main.go:223-226
TokenOf(options, srcType) ==
    IF srcType = "gitlab" /\ options.GitlabToken # <<>>
    THEN options.GitlabToken
    ELSE options.GithubToken

\* the driver and the tokens of a run, the token runFetchWithSource picks
\* from them, and the Commit it builds
InitArch ==
    /\ archCall \in { [pc |-> "call", driver |-> d, githubToken |-> gh, gitlabToken |-> gl,
                       token |-> TokenOf([GithubToken |-> gh, GitlabToken |-> gl], d),
                       commit |-> [Repo |-> RepoOf(d), CommitSha |-> c, BranchName |-> b,
                                   GitTag |-> g, GitRef |-> r],
                       req |-> NoRequest, err |-> "nil"] :
                      d \in Drivers, gh \in Tokens, gl \in Tokens, c \in ShaUniverse,
                      b \in BranchUniverse, g \in GitTagUniverse, r \in GitRefUniverse }
    /\ tagCall = IdleCall
    /\ sumCall = IdleCall
    /\ extCall = IdleCall
    /\ pageCall = IdleCall
    /\ urlCall = IdleCall
    /\ RunIdle

CallMakeArchiveRequest ==
    /\ archCall.pc = "call"
    /\ LET r == MakeArchiveRequest(archCall.driver, archCall.commit, archCall.token)
       IN  archCall' = [archCall EXCEPT !.pc = "done", !.req = r.req, !.err = r.err]
    /\ UNCHANGED <<tagCall, sumCall, extCall, pageCall, urlCall, runVars>>

NextArch == CallMakeArchiveRequest

SpecArch == InitArch /\ [][NextArch]_vars

\* the part of an archive URL after the driver's marker: the ref as sent
ArchiveRefOf(url) ==
    LET at == CHOOSE i \in 1..Len(url) :
                  url[i] \in {"/zipball/", "/repository/archive.zip?sha="}
    IN  SubSeq(url, at + 1, Len(url))

\* the four reference fields in the order of precedence
RefFields(commit) == <<commit.CommitSha, commit.BranchName, commit.GitTag, commit.GitRef>>

\* C8: the ref sent in the archive URL is the first non-empty field in the
\* order CommitSha, BranchName, GitTag, GitRef (query-escaped by the GitLab
\* driver); when all four are empty the call returns an error and no request.
C8_ArchiveRefPrecedence ==
    archCall.pc = "done"
    => LET f == RefFields(archCall.commit)
       IN  IF \A i \in 1..4 : f[i] = <<>>
           THEN archCall.err # "nil" /\ archCall.req = NoRequest
           ELSE LET w == CHOOSE i \in 1..4 :
                             f[i] # <<>> /\ \A j \in 1..(i - 1) : f[j] = <<>>
                IN  /\ archCall.err = "nil"
                    /\ ArchiveRefOf(archCall.req.url)
                         = IF archCall.driver = "gitlab" THEN QueryEscape(f[w]) ELSE f[w]

\* C8 witness: a commit with both a tag and a generic ref, and neither SHA
\* nor branch, got its request from the GitLab driver
C8_Witness ==
    /\ archCall.pc = "done"
    /\ archCall.driver = "gitlab"
    /\ archCall.commit.CommitSha = <<>> /\ archCall.commit.BranchName = <<>>
    /\ archCall.commit.GitTag # <<>> /\ archCall.commit.GitRef # <<>>
    /\ archCall.req # NoRequest

\* C29: the GitHub token never reaches a forge handled by the GitLab driver:
\* with the GitLab driver and no GitLab token, the request carries no
\* credential header, whatever the GitHub token is.
C29_CredentialSeparation ==
    (/\ archCall.pc = "done"
     /\ archCall.driver = "gitlab"
     /\ archCall.gitlabToken = <<>>
     /\ archCall.req # NoRequest)
    => archCall.req.header = <<>>

----------------------------------------------------------------------------
(* Repository URLs: url.Parse, ParseUrl of both drivers, and the factory *)

\* strings.ToLower on the letters of the model
ToLower(s) ==
    LET upper == <<"A", "B", "G", "H", "I", "L", "O", "T", "U">>
        lower == <<"a", "b", "g", "h", "i", "l", "o", "t", "u">>
    IN  [i \in 1..Len(s) |->
           IF \E k \in 1..Len(upper) : upper[k] = s[i]
           THEN lower[CHOOSE k \in 1..Len(upper) : upper[k] = s[i]]
           ELSE s[i]]

\* the index of the first c in s, 0 when there is none
IndexOf(s, c) ==
    IF \E i \in 1..Len(s) : s[i] = c
    THEN CHOOSE i \in 1..Len(s) : s[i] = c /\ \A j \in 1..(i - 1) : s[j] # c
    ELSE 0

\* net/url getScheme: letters, and after the first character digits, '+',
\* '-' and '.', up to a ':'; a ':' in the first place is an error, any other
\* character means the URL has no scheme
GetScheme(rawURL) ==
    LET SchemeChar(i) == \/ ToLower(<<rawURL[i]>>)[1] \in
                               {"a", "b", "c", "g", "h", "i", "l", "m", "o", "p",
                                "r", "s", "t", "u"}
                         \/ i > 1 /\ (IsDigit(rawURL[i]) \/ rawURL[i] \in {"+", "-", "."})
        stop == IF \E i \in 1..Len(rawURL) : ~SchemeChar(i)
                THEN CHOOSE i \in 1..Len(rawURL) :
                        ~SchemeChar(i) /\ \A j \in 1..(i - 1) : SchemeChar(j)
                ELSE 0
    IN  IF stop = 0 \/ rawURL[stop] # ":"
        THEN [scheme |-> <<>>, rest |-> rawURL, err |-> "nil"]
        ELSE IF stop = 1
        THEN [scheme |-> <<>>, rest |-> <<>>, err |-> "missing protocol scheme"]
        ELSE [scheme |-> SubSeq(rawURL, 1, stop - 1),
              rest |-> SubSeq(rawURL, stop + 1, Len(rawURL)), err |-> "nil"]

\* url.Parse: the fragment and the query are cut off, the scheme is read,
\* an authority follows "//" up to the next '/', the rest is the path
UrlParse(rawURL) ==
    LET cut(t, c)  == IF IndexOf(t, c) = 0 THEN t ELSE SubSeq(t, 1, IndexOf(t, c) - 1)
        Parts(sch, rest) ==
            LET afterSlash == SubSeq(rest, 3, Len(rest))
                hostEnd    == IF IndexOf(afterSlash, "/") = 0 THEN Len(afterSlash)
                              ELSE IndexOf(afterSlash, "/") - 1
            IN  IF ~HasPrefix(rest, <<"/">>) /\ sch.scheme # <<>>
                THEN [Scheme |-> ToLower(sch.scheme), Host |-> <<>>, Path |-> <<>>, err |-> "nil"]
                ELSE IF ~HasPrefix(rest, <<"/">>) /\ IndexOf(cut(rest, "/"), ":") # 0
                THEN [Scheme |-> <<>>, Host |-> <<>>, Path |-> <<>>,
                      err |-> "first path segment in URL cannot contain colon"]
                ELSE IF HasPrefix(rest, <<"/", "/">>) /\ ~HasPrefix(rest, <<"/", "/", "/">>)
                THEN [Scheme |-> ToLower(sch.scheme),
                      Host |-> SubSeq(afterSlash, 1, hostEnd),
                      Path |-> SubSeq(afterSlash, hostEnd + 1, Len(afterSlash)), err |-> "nil"]
                ELSE [Scheme |-> ToLower(sch.scheme), Host |-> <<>>, Path |-> rest, err |-> "nil"]
        Parsed(sch) ==
            IF sch.err # "nil"
            THEN [Scheme |-> <<>>, Host |-> <<>>, Path |-> <<>>, err |-> sch.err]
            ELSE The({ Parts(sch, rest) : rest \in {cut(sch.rest, "?")} })
    IN  The({ Parsed(sch) : sch \in {GetScheme(cut(rawURL, "#"))} })

\* the texts that the drivers and the factory compare with and build from
Text ==
    [http      |-> <<"h", "t", "t", "p", ":", "/", "/">>,
     https     |-> <<"h", "t", "t", "p", "s", ":", "/", "/">>,
     www       |-> <<"w", "w", "w", ".">>,
     github    |-> <<"g", "i", "t", "h", "u", "b", ".", "c", "o", "m">>,
     gitlab    |-> <<"g", "i", "t", "l", "a", "b", ".", "c", "o", "m">>,
     apiGithub |-> <<"a", "p", "i", ".", "g", "i", "t", "h", "u", "b", ".", "c", "o", "m">>,
     apiV3     |-> <<"/", "a", "p", "i", "/", "v", "3">>,
     dotGit    |-> <<".", "g", "i", "t">>]

\* source.go:19-27, the zero Repo
NoRepo == [BaseUrl |-> <<>>, ApiUrl |-> <<>>, Owner |-> <<>>, Name |-> <<>>]

\* github.go:36-80. The regular expression
\*   https?://(?:www\.)?<host>/(.+?)/(.+?)(?:$|\?|#|/)
\* is not anchored: the leftmost place of the URL where it matches counts,
\* with the shortest owner and the shortest name
GitHubParseUrl(repoUrl) ==
    LET starts  == { Text.http, Text.https } \X { <<>>, Text.www }
        \* the text after scheme, optional www., host and '/', for a match at i
        After(host, i) ==
            { SubSeq(repoUrl, i + Len(st[1] \o st[2] \o host) + 1, Len(repoUrl)) :
                st \in { t \in starts :
                           HasPrefix(SubSeq(repoUrl, i, Len(repoUrl)),
                                     t[1] \o t[2] \o host \o <<"/">>) } }
        \* owner of m characters, '/', and a name of at least one character
        Owners(t) == { m \in 1..(Len(t) - 2) : t[m + 1] = "/" }
        Least(S)  == CHOOSE i \in S : \A k \in S : i <= k
        Name(rest) ==
            IF \E k \in 2..Len(rest) : rest[k] \in {"?", "#", "/"}
            THEN SubSeq(rest, 1, Least({ k \in 2..Len(rest) : rest[k] \in {"?", "#", "/"} }) - 1)
            ELSE rest
        Match(u, t0, m0) ==
            [repo |-> [BaseUrl |-> u.Host,
                       ApiUrl  |-> IF u.Host # Text.github /\ u.Host # Text.www \o Text.github
                                   THEN u.Host \o Text.apiV3 ELSE Text.apiGithub,
                       Owner   |-> SubSeq(t0, 1, m0),
                       Name    |-> The({ Name(rest) : rest \in {SubSeq(t0, m0 + 2, Len(t0))} })],
             err |-> "nil"]
        \* (?:www\.)? takes the www. when the match can go on with it
        MatchAt(u, i0) ==
            The({ Match(u, t0, Least(Owners(t0))) :
                    t0 \in { t \in After(u.Host, i0) :
                               /\ Owners(t) # {}
                               /\ \A o \in After(u.Host, i0) :
                                    Owners(o) # {} => Len(t) <= Len(o) } })
        Parsed(u, hits) ==
            IF u.err # "nil" THEN [repo |-> NoRepo, err |-> "malformed"]
            ELSE IF hits = {} THEN [repo |-> NoRepo, err |-> "could not be parsed"]
            ELSE MatchAt(u, Least(hits))
        Hits(u) == { i \in 1..Len(repoUrl) : \E t \in After(u.Host, i) : Owners(t) # {} }
    IN  The({ The({ Parsed(u, hits) : hits \in {Hits(u)} }) : u \in {UrlParse(repoUrl)} })

\* strings.Trim(s, "/")
RECURSIVE TrimSlashes(_)
TrimSlashes(s) ==
    IF s # <<>> /\ s[1] = "/" THEN TrimSlashes(Tail(s))
    ELSE IF s # <<>> /\ s[Len(s)] = "/" THEN TrimSlashes(SubSeq(s, 1, Len(s) - 1))
    ELSE s

\* gitlab/types.go:560-604
GitLabParseUrl(repoUrl) ==
    LET TrimSuffix(t, x) == IF Len(x) <= Len(t) /\ SubSeq(t, Len(t) - Len(x) + 1, Len(t)) = x
                            THEN SubSeq(t, 1, Len(t) - Len(x)) ELSE t
        Path(u)  == TrimSuffix(TrimSuffix(TrimSlashes(u.Path), Text.dotGit), <<"/">>)
        Project(u, parts) ==
            IF Len(parts) < 2 THEN [repo |-> NoRepo, err |-> "need at least owner/project"]
            ELSE IF JoinSlash(SubSeq(parts, 1, Len(parts) - 1)) = <<>> \/ parts[Len(parts)] = <<>>
            THEN [repo |-> NoRepo, err |-> "could not be parsed"]
            ELSE [repo |-> [BaseUrl |-> u.Host, ApiUrl |-> u.Host,
                            Owner |-> JoinSlash(SubSeq(parts, 1, Len(parts) - 1)),
                            Name |-> parts[Len(parts)]],
                  err |-> "nil"]
        Parsed(u) ==
            IF u.err # "nil" THEN [repo |-> NoRepo, err |-> "malformed"]
            ELSE The({ Project(u, parts) : parts \in {SplitSlash(Path(u))} })
    IN  The({ Parsed(u) : u \in {UrlParse(repoUrl)} })

\* a detection that takes every host with gitlab in its name for GitLab
DetectSourceType_ContainsGitlab(repoUrl) ==
    IF UrlParse(repoUrl).err # "nil" THEN [type |-> "", err |-> "invalid URL"]
    ELSE IF Contains(ToLower(UrlParse(repoUrl).Host), <<"g", "i", "t", "l", "a", "b">>)
    THEN [type |-> "gitlab", err |-> "nil"]
    ELSE [type |-> "github", err |-> "nil"]

\* factory.go:13-35
DetectSourceType(repoUrl) ==
    LET Detected(u, host) ==
            IF u.err # "nil" THEN [type |-> "", err |-> "invalid URL"]
            ELSE IF host = Text.gitlab \/ host = Text.www \o Text.gitlab
            THEN [type |-> "gitlab", err |-> "nil"]
            ELSE IF host = Text.github \/ host = Text.www \o Text.github
            THEN [type |-> "github", err |-> "nil"]
            ELSE [type |-> "github", err |-> "nil"]
    IN  The({ Detected(u, ToLower(u.Host)) : u \in {UrlParse(repoUrl)} })

\* factory.go:37-48; a SourceType is written as a TLA+ string
ParseSourceType(sel) ==
    LET lower == ToLower(sel)
    IN  IF lower = <<"g", "i", "t", "h", "u", "b">> THEN [type |-> "github", err |-> "nil"]
        ELSE IF lower = <<"g", "i", "t", "l", "a", "b">> THEN [type |-> "gitlab", err |-> "nil"]
        ELSE IF lower = <<"a", "u", "t", "o">> \/ lower = <<>>
        THEN [type |-> "auto", err |-> "nil"]
        ELSE [type |-> "", err |-> "unknown source type"]

\* factory.go:51-77: GetSource and NewSource; the result names the driver made
GetSource(repoUrl, explicitType) ==
    LET srcType == IF explicitType # "" /\ explicitType # "auto"
                   THEN [type |-> explicitType, err |-> "nil"]
                   ELSE DetectSourceType(repoUrl)
    IN  IF srcType.err # "nil" THEN [driver |-> "none", err |-> srcType.err]
        ELSE IF srcType.type \in {"github", "gitlab"}
        THEN [driver |-> srcType.type, err |-> "nil"]
        ELSE [driver |-> "none", err |-> "unsupported source type"]

----------------------------------------------------------------------------
(* main.go: the options of a run *)

\* a validation that forgets to ask for a reference
validateOptions_NoRefCheck(options) ==
    IF options.RepoUrl = <<>> THEN "the --repo flag is required"
    ELSE IF options.LocalDownloadPath = <<>> THEN "missing local download path"
    ELSE IF options.ReleaseAsset # <<>> /\ options.TagConstraint = <<>>
         THEN "--release-asset can only be used with --tag"
    ELSE "nil"

\* main.go:537-565; the result names the check that failed
validateOptions(options) ==
    IF options.RepoUrl = <<>> THEN "the --repo flag is required"
    ELSE IF options.LocalDownloadPath = <<>> THEN "missing local download path"
    ELSE IF /\ options.GitRef = <<>> /\ options.TagConstraint = <<>>
            /\ options.CommitSha = <<>> /\ options.BranchName = <<>>
         THEN "you must specify exactly one of --ref, --tag, --commit, or --branch"
    ELSE IF options.ReleaseAsset # <<>> /\ options.TagConstraint = <<>>
         THEN "--release-asset can only be used with --tag"
    ELSE IF DOMAIN options.ReleaseAssetChecksums # {} /\ options.ReleaseAssetChecksumAlgo = ""
         THEN "checksum without algorithm"
    ELSE IF options.SourceType \notin { <<"a", "u", "t", "o">>, <<"g", "i", "t", "h", "u", "b">>,
                                        <<"g", "i", "t", "l", "a", "b">> }
         THEN "invalid --source value"
    ELSE "nil"

\* main.go:203-214: ParseSourceType, then DetectSourceType for auto
SelectSourceType(options) ==
    LET parsed == ParseSourceType(options.SourceType)
    IN  IF parsed.err = "nil" /\ parsed.type = "auto"
        THEN DetectSourceType(options.RepoUrl)
        ELSE parsed

\* the command lines of the model
OptionSets ==
    { [RepoUrl |-> u, LocalDownloadPath |-> l, GitRef |-> r, CommitSha |-> c,
       BranchName |-> b, TagConstraint |-> t, SourceType |-> st, SourcePaths |-> sp,
       ReleaseAsset |-> ra, ReleaseAssetChecksums |-> cs, ReleaseAssetChecksumAlgo |-> al,
       Stdout |-> so, GithubToken |-> <<>>, GitlabToken |-> <<>>] :
      u  \in { <<>>, Text.https \o Text.github \o <<"/", "f", "o", "o", "/", "b", "a", "r">>,
                Text.https \o Text.github \o <<"/", "f", "o", "o">> },
      l  \in { <<>>, <<"/dst">> },
      r  \in { <<>>, <<"m", "a", "i", "n">> },
      c  \in ShaUniverse,
      b  \in { <<>>, <<"d", "e", "v">> },
      t  \in { <<>>, Spell(<<"v">>, <<1, 0, 1>>), Expr(<<">", "=">>, <<" ">>, <<1, 1>>),
                <<">", "x">> },
      st \in { <<"a", "u", "t", "o">>, <<"g", "i", "t", "l", "a", "b">>,
                <<"G", "i", "t", "L", "a", "b">> },
      sp \in { <<>>, <<"/a", "/b">> },
      ra \in { <<>>, <<"a", "+", "b">>, <<"a", "(", "b">> },
      cs \in { <<>>, [k \in {hasherToString("sha256", "hello")} |-> TRUE] },
      al \in { "", "sha256" },
      so \in BOOLEAN }

\* the tag lists a forge may answer FetchTags with
ForgeTagLists ==
    { <<>>, <<Spell(<<"v">>, <<1, 0, 1>>), Spell(<<>>, <<2, 0, 0>>)>> }

\* the step of downloadZipFileWithSource that fails, or "ok"
ZipOutcomes == {"MkdirTemp", "Do", "StatusCode", "Create", "Copy", "ok"}

InitRun ==
    /\ fetchOptions \in OptionSets
    /\ pc = "validate"
    /\ runErr = "nil"
    /\ sourceType = ""
    /\ tagsReply = "none"
    /\ fetchedTags = <<>>
    /\ desiredTag = <<>>
    /\ requests = {}
    /\ archiveReq = NoRequest
    /\ zip = [tempDir |-> "none", sourcePaths |-> <<>>, idx |-> 0, extracted |-> {}]
    /\ dl = [release |-> <<>>, matchingAssets |-> <<>>, workers |-> <<>>,
             results |-> <<>>, closed |-> FALSE, assetPaths |-> <<>>,
             errorStrs |-> <<>>, err |-> "nil", returned |-> FALSE]
    /\ files = <<>>
    /\ verified = <<>>
    /\ stdout = <<>>
    /\ tagCall = IdleCall
    /\ sumCall = IdleCall
    /\ archCall = IdleCall
    /\ extCall = IdleCall
    /\ pageCall = IdleCall
    /\ urlCall = IdleCall

\* the run returns e
Exit(e) == pc' = "exit" /\ runErr' = e

\* main.go:196-218: runFetch up to the call of runFetchWithSource
ValidateOptions ==
    /\ pc = "validate"
    /\ IF validateOptions(fetchOptions) # "nil"
       THEN Exit(validateOptions(fetchOptions)) /\ UNCHANGED sourceType
       ELSE IF SelectSourceType(fetchOptions).err # "nil"
       THEN Exit(SelectSourceType(fetchOptions).err) /\ UNCHANGED sourceType
       ELSE /\ pc' = "fetchTags"
            /\ sourceType' = SelectSourceType(fetchOptions).type
            /\ UNCHANGED runErr
    /\ UNCHANGED <<fetchOptions, fetchedTags, desiredTag, requests, archiveReq,
                   zip, dl, files, verified, stdout, tagsReply, callVars>>

\* Source.ParseUrl of the driver
ParseUrl(driver, repoUrl) ==
    IF driver = "gitlab" THEN GitLabParseUrl(repoUrl) ELSE GitHubParseUrl(repoUrl)

\* how a forge may answer the tag listing
ForgeReplies == {"HTTP 200", "HTTP 401", "HTTP 404", "HTTP 500", "no answer"}

\* main.go:578-611: the preamble for an error code, named by its first words
getErrorMessage(errorCode) ==
    CASE errorCode = "invalidTagConstraintExpression"
           -> "The --tag value you entered is not a valid constraint expression."
      [] errorCode = "invalidGithubTokenOrAccessDenied"
           -> "Received an HTTP 401 Response when attempting to query the repo for its tags."
      [] errorCode = "repoDoesNotExistOrAccessDenied"
           -> "Received an HTTP 404 Response when attempting to query the repo for its tags."
      [] OTHER -> ""

\* a run that lists the tags only when --ref or --tag asks for one
FetchTags_WhenTagNeeded ==
    /\ pc = "fetchTags"
    /\ IF ParseUrl(sourceType, fetchOptions.RepoUrl).err # "nil"
       THEN Exit("Error parsing repo URL") /\ UNCHANGED <<requests, tagsReply, fetchedTags>>
       ELSE IF fetchOptions.GitRef = <<>> /\ fetchOptions.TagConstraint = <<>>
       THEN pc' = "resolve" /\ UNCHANGED <<runErr, requests, tagsReply, fetchedTags>>
       ELSE /\ requests' = requests \cup {"tags"}
            /\ \E reply \in ForgeReplies :
                 /\ tagsReply' = reply
                 /\ IF reply # "HTTP 200"
                    THEN Exit("Error fetching tags") /\ UNCHANGED fetchedTags
                    ELSE /\ fetchedTags' \in ForgeTagLists
                         /\ pc' = "resolve"
                         /\ UNCHANGED runErr
    /\ UNCHANGED <<fetchOptions, sourceType, desiredTag, archiveReq,
                   zip, dl, files, verified, stdout, callVars>>

\* main.go:241-251: ParseUrl, then FetchTags, which the forge answers with
\* the tags or with a failure
FetchTags ==
    /\ pc = "fetchTags"
    /\ IF ParseUrl(sourceType, fetchOptions.RepoUrl).err # "nil"
       THEN Exit("Error parsing repo URL") /\ UNCHANGED <<requests, tagsReply, fetchedTags>>
       ELSE /\ requests' = requests \cup {"tags"}
            /\ \E reply \in ForgeReplies :
                 /\ tagsReply' = reply
                 /\ IF reply # "HTTP 200"
                    THEN Exit("Error fetching tags") /\ UNCHANGED fetchedTags
                    ELSE /\ fetchedTags' \in ForgeTagLists
                         /\ pc' = "resolve"
                         /\ UNCHANGED runErr
    /\ UNCHANGED <<fetchOptions, sourceType, desiredTag, archiveReq,
                   zip, dl, files, verified, stdout, callVars>>

\* main.go:253-275
ResolveTag ==
    /\ pc = "resolve"
    /\ LET tagConstraint == IF fetchOptions.GitRef # <<>> THEN fetchOptions.GitRef
                            ELSE fetchOptions.TagConstraint
           s == isTagConstraintSpecificTag(tagConstraint)
           r == getLatestAcceptableTag(tagConstraint, fetchedTags)
       IN  IF s.specific
           THEN desiredTag' = s.tag /\ pc' = "sources" /\ UNCHANGED runErr
           ELSE IF r.err = "invalidTagConstraintExpression"
           THEN Exit(getErrorMessage("invalidTagConstraintExpression")) /\ UNCHANGED desiredTag
           ELSE IF r.err # "nil"
           THEN Exit("Error computing latest tag") /\ UNCHANGED desiredTag
           ELSE desiredTag' = r.latestTag /\ pc' = "sources" /\ UNCHANGED runErr
    /\ UNCHANGED <<fetchOptions, sourceType, fetchedTags, requests, archiveReq,
                   zip, dl, files, verified, stdout, tagsReply, callVars>>

\* main.go:277-287, 327-358 and 379-420: the default source path, the Commit,
\* and downloadZipFileWithSource, which returns at the first step that fails
\* and leaves the temporary directory as it is
DownloadZipFileWithSource ==
    /\ pc = "sources"
    /\ LET sourcePaths == IF Len(fetchOptions.SourcePaths) = 0
                             /\ fetchOptions.ReleaseAsset = <<>>
                          THEN << "/" >> ELSE fetchOptions.SourcePaths
           commit == [Repo |-> ParseUrl(sourceType, fetchOptions.RepoUrl).repo,
                      GitRef |-> desiredTag,
                      GitTag |-> desiredTag, BranchName |-> fetchOptions.BranchName,
                      CommitSha |-> fetchOptions.CommitSha]
           made == MakeArchiveRequest(sourceType, commit, TokenOf(fetchOptions, sourceType))
       IN  IF Len(sourcePaths) = 0
           THEN pc' = "assets" /\ UNCHANGED <<runErr, zip, archiveReq, requests>>
           ELSE IF \A i \in 1..4 : RefFields(commit)[i] = <<>>
           THEN /\ Exit("No commit, tag, branch, or ref specified")
                /\ UNCHANGED <<zip, archiveReq, requests>>
           ELSE \E outcome \in ZipOutcomes :
                /\ zip' = [zip EXCEPT
                             !.tempDir = IF outcome = "MkdirTemp" THEN "none" ELSE "exists",
                             !.sourcePaths = sourcePaths,
                             !.idx = 1]
                /\ archiveReq' = IF outcome = "MkdirTemp" THEN archiveReq ELSE made.req
                /\ requests' = IF outcome = "MkdirTemp" \/ made.err # "nil"
                               THEN requests ELSE requests \cup {"archive"}
                /\ IF outcome = "ok" /\ made.err = "nil"
                   THEN pc' = "extract" /\ UNCHANGED runErr
                   ELSE Exit("Error downloading zip")
    /\ UNCHANGED <<fetchOptions, sourceType, fetchedTags, desiredTag,
                   dl, files, verified, stdout, tagsReply, callVars>>

\* main.go:358-376: extractFiles on the next source path; when the function
\* returns, by an error or after the last path, the deferred cleanupZipFile
\* removes the temporary directory
ExtractFiles ==
    /\ pc = "extract"
    /\ \/ /\ Exit("Error extracting files")
          /\ zip' = [zip EXCEPT !.tempDir = "removed"]
       \/ /\ UNCHANGED runErr
          /\ IF zip.idx = Len(zip.sourcePaths)
             THEN /\ pc' = "assets"
                  /\ zip' = [zip EXCEPT !.tempDir = "removed",
                                        !.extracted = @ \cup {zip.sourcePaths[zip.idx]}]
             ELSE /\ pc' = "extract"
                  /\ zip' = [zip EXCEPT !.idx = @ + 1,
                                        !.extracted = @ \cup {zip.sourcePaths[zip.idx]}]
    /\ UNCHANGED <<fetchOptions, sourceType, fetchedTags, desiredTag, requests,
                   archiveReq, dl, files, verified, stdout, tagsReply, callVars>>

----------------------------------------------------------------------------
(* main.go: release assets, checksums, stdout *)

\* regexp.Compile on the patterns of the model, written with letters, '.',
\* '+' after a letter, and '(': a '(' that no ')' closes does not compile
RegexpCompiles(pattern) == \A i \in 1..Len(pattern) : pattern[i] # "("

\* Regexp.MatchString on a pattern that compiled: a match may start anywhere
RECURSIVE MatchHere(_, _)
MatchHere(pattern, name) ==
    IF pattern = <<>> THEN TRUE
    ELSE IF Len(pattern) >= 2 /\ pattern[2] = "+"
    THEN /\ name # <<>>
         /\ pattern[1] \in {".", name[1]}
         /\ \/ MatchHere(Tail(Tail(pattern)), Tail(name))
            \/ MatchHere(pattern, Tail(name))
    ELSE /\ name # <<>>
         /\ pattern[1] \in {".", name[1]}
         /\ MatchHere(Tail(pattern), Tail(name))

MatchString(pattern, name) ==
    \E i \in 1..(Len(name) + 1) : MatchHere(pattern, SubSeq(name, i, Len(name)))

\* main.go:436-447: the assets of the release the pattern selects, in the
\* release's order; the pattern must compile before any name is compared
MatchingAssets(assetRegex, assets) ==
    IF ~RegexpCompiles(assetRegex) THEN [assets |-> <<>>, err |-> "Invalid asset regex"]
    ELSE [assets |-> SelectSeq(assets, LAMBDA asset :
                        MatchString(assetRegex, asset.Name) \/ asset.Name = assetRegex),
          err |-> "nil"]

\* the releases a forge may answer GetReleaseInfo with: their assets
ReleaseUniverse ==
    { <<>>,
      << [Id |-> 1, Name |-> <<"a", "a", "b">>] >>,
      << [Id |-> 1, Name |-> <<"a", "+", "b">>], [Id |-> 2, Name |-> <<"a", "a", "b">>] >>,
      << [Id |-> 1, Name |-> <<"a", "(", "b">>], [Id |-> 2, Name |-> <<"a", "a", "b">>] >>,
      << [Id |-> 1, Name |-> <<"a", "a", "b">>], [Id |-> 2, Name |-> <<"a", "a", "b">>] >> }

\* main.go:466: path.Join(destPath, asset.Name)
AssetPath(destPath, asset) == destPath \o <<"/">> \o asset.Name

\* main.go:423-476: GetReleaseInfo, the matching, and one worker per
\* matching asset
StartWorkers ==
    /\ pc = "assets"
    /\ IF fetchOptions.ReleaseAsset = <<>>
       THEN pc' = "verify" /\ UNCHANGED <<runErr, dl, requests>>
       ELSE /\ requests' = requests \cup {"release"}
            /\ \/ /\ Exit("Error getting release info")
                  /\ UNCHANGED dl
               \/ \E release \in ReleaseUniverse :
                    LET m == MatchingAssets(fetchOptions.ReleaseAsset, release)
                    IN  IF m.err # "nil"
                        THEN Exit(m.err) /\ dl' = [dl EXCEPT !.release = release]
                        ELSE IF Len(m.assets) = 0
                        THEN Exit("No assets matching") /\ dl' = [dl EXCEPT !.release = release]
                        ELSE /\ pc' = "wait"
                             /\ UNCHANGED runErr
                             /\ dl' = [dl EXCEPT
                                  !.release = release,
                                  !.matchingAssets = m.assets,
                                  !.workers = [i \in 1..Len(m.assets) |->
                                      [pc |-> "download",
                                       assetPath |-> AssetPath(fetchOptions.LocalDownloadPath,
                                                               m.assets[i]),
                                       err |-> "nil"]]]
    /\ UNCHANGED <<fetchOptions, sourceType, fetchedTags, desiredTag, archiveReq,
                   zip, files, verified, stdout, tagsReply, callVars>>

\* main.go:466-468: a worker's DownloadReleaseAsset writes the file or fails
WorkerDownload(i) ==
    /\ dl.workers[i].pc = "download"
    /\ requests' = requests \cup {"asset"}
    /\ \/ \E content \in FileContents :
            /\ files' = (dl.workers[i].assetPath :> content) @@ files
            /\ dl' = [dl EXCEPT !.workers[i].pc = "send"]
       \/ /\ dl' = [dl EXCEPT !.workers[i].pc = "send", !.workers[i].err = "download failed"]
          /\ UNCHANGED files
    /\ UNCHANGED <<fetchOptions, pc, runErr, sourceType, fetchedTags, desiredTag,
                   archiveReq, zip, verified, stdout, tagsReply, callVars>>

\* a channel with room for one result less than there are workers
ResultsCapacity_OneLess == Len(dl.matchingAssets) - 1

\* main.go:459: make(chan AssetDownloadResult, len(matchingAssets))
ResultsCapacity == Len(dl.matchingAssets)

\* main.go:470 and 473: the worker sends its one result, when the channel
\* has room for it
WorkerSend(i) ==
    /\ dl.workers[i].pc = "send"
    /\ Len(dl.results) < ResultsCapacity
    /\ dl' = [dl EXCEPT !.workers[i].pc = "deferred",
                        !.results = Append(@, [assetPath |-> dl.workers[i].assetPath,
                                               err |-> dl.workers[i].err])]
    /\ UNCHANGED <<fetchOptions, pc, runErr, sourceType, fetchedTags, desiredTag, requests,
                   archiveReq, zip, files, verified, stdout, tagsReply, callVars>>

\* main.go:465: the deferred wg.Done
WorkerDone(i) ==
    /\ dl.workers[i].pc = "deferred"
    /\ dl' = [dl EXCEPT !.workers[i].pc = "done"]
    /\ UNCHANGED <<fetchOptions, pc, runErr, sourceType, fetchedTags, desiredTag, requests,
                   archiveReq, zip, files, verified, stdout, tagsReply, callVars>>

\* a caller that closes the channel without waiting for the workers
CloseResults_NoWait ==
    /\ pc = "wait"
    /\ pc' = "collect"
    /\ dl' = [dl EXCEPT !.closed = TRUE]
    /\ UNCHANGED <<fetchOptions, runErr, sourceType, fetchedTags, desiredTag, requests,
                   archiveReq, zip, files, verified, stdout, tagsReply, callVars>>

\* main.go:478-479: wg.Wait returns when every worker is done; close(results)
CloseResults ==
    /\ pc = "wait"
    /\ \A i \in DOMAIN dl.workers : dl.workers[i].pc = "done"
    /\ pc' = "collect"
    /\ dl' = [dl EXCEPT !.closed = TRUE]
    /\ UNCHANGED <<fetchOptions, runErr, sourceType, fetchedTags, desiredTag, requests,
                   archiveReq, zip, files, verified, stdout, tagsReply, callVars>>

\* main.go:482-495: the channel is read to its end; the failures are logged
\* and the function returns the paths of the successes and a nil error
CollectResults ==
    /\ pc = "collect"
    /\ pc' = "verify"
    /\ dl' = [dl EXCEPT
         !.results = <<>>,
         !.assetPaths = [k \in 1..Len(SelectSeq(dl.results, LAMBDA r : r.err = "nil")) |->
                            SelectSeq(dl.results, LAMBDA r : r.err = "nil")[k].assetPath],
         !.errorStrs = [k \in 1..Len(SelectSeq(dl.results, LAMBDA r : r.err # "nil")) |->
                            SelectSeq(dl.results, LAMBDA r : r.err # "nil")[k].assetPath],
         !.err = "nil",
         !.returned = TRUE]
    /\ UNCHANGED <<fetchOptions, runErr, sourceType, fetchedTags, desiredTag, requests,
                   archiveReq, zip, files, verified, stdout, tagsReply, callVars>>

\* main.go:298-306: the next asset path is verified, when checksums were given
VerifyChecksums ==
    /\ pc = "verify"
    /\ IF DOMAIN fetchOptions.ReleaseAssetChecksums = {}
          \/ Len(verified) = Len(dl.assetPaths)
       THEN pc' = "stdout" /\ UNCHANGED <<runErr, verified>>
       ELSE LET assetPath == dl.assetPaths[Len(verified) + 1]
                fetchErr  == verifyChecksumOfReleaseAsset(files[assetPath],
                                 fetchOptions.ReleaseAssetChecksums,
                                 fetchOptions.ReleaseAssetChecksumAlgo)
            IN  IF fetchErr # "nil"
                THEN Exit(fetchErr) /\ UNCHANGED verified
                ELSE /\ verified' = Append(verified, assetPath)
                     /\ UNCHANGED <<pc, runErr>>
    /\ UNCHANGED <<fetchOptions, sourceType, fetchedTags, desiredTag, requests,
                   archiveReq, zip, dl, files, stdout, tagsReply, callVars>>

\* main.go:308-323
WriteStdout ==
    /\ pc = "stdout"
    /\ Exit("nil")
    /\ stdout' = IF fetchOptions.Stdout /\ Len(dl.assetPaths) = 1
                 THEN Append(stdout, files[dl.assetPaths[1]])
                 ELSE stdout
    /\ UNCHANGED <<fetchOptions, sourceType, fetchedTags, desiredTag, requests,
                   archiveReq, zip, dl, files, verified, tagsReply, callVars>>

NextRun ==
    \/ ValidateOptions
    \/ FetchTags
    \/ ResolveTag
    \/ DownloadZipFileWithSource
    \/ ExtractFiles
    \/ StartWorkers
    \/ \E i \in DOMAIN dl.workers : WorkerDownload(i) \/ WorkerSend(i) \/ WorkerDone(i)
    \/ CloseResults
    \/ CollectResults
    \/ VerifyChecksums
    \/ WriteStdout

SpecRun == InitRun /\ [][NextRun]_vars

\* the workers a release of the model can have
WorkerIds == UNION { DOMAIN release : release \in ReleaseUniverse }

\* the Go scheduler lets every goroutine that can take a step take one: the
\* workers, and the caller at wg.Wait, close and the collecting loop
SpecRunFair ==
    /\ SpecRun
    /\ \A i \in WorkerIds :
          WF_vars(i \in DOMAIN dl.workers
                  /\ (WorkerDownload(i) \/ WorkerSend(i) \/ WorkerDone(i)))
    /\ WF_vars(CloseResults)
    /\ WF_vars(CollectResults)

----------------------------------------------------------------------------
(* Properties of a run *)

\* how many of --ref, --tag, --commit, --branch the command line gives
NumRefs(options) ==
    Cardinality({ i \in 1..4 :
        <<options.GitRef, options.TagConstraint, options.CommitSha, options.BranchName>>[i]
            # <<>> })

\* C9 as stated: an option set that went past validateOptions, or for which
\* a request was sent to the forge, has exactly one of --ref, --tag,
\* --commit, --branch.
C9_ExactlyOneRef ==
    (pc \notin {"validate", "exit"} \/ requests # {}) => NumRefs(fetchOptions) = 1

\* C9 amended: validateOptions accepts only option sets with at least one of
\* --ref, --tag, --commit, --branch; a set with none is rejected before any
\* forge request; a set is never rejected for giving two or more of them.
C9_AtLeastOneRef ==
    /\ (pc \notin {"validate", "exit"} \/ requests # {}) => NumRefs(fetchOptions) >= 1
    /\ (pc # "validate" /\ NumRefs(fetchOptions) = 0)
         => (pc = "exit" /\ runErr # "nil" /\ requests = {})
    /\ runErr = "you must specify exactly one of --ref, --tag, --commit, or --branch"
         => NumRefs(fetchOptions) = 0

\* C9 witness: an option set with two or more of the four was accepted and
\* the tags were requested from the forge
C9_Witness ==
    /\ pc = "resolve"
    /\ NumRefs(fetchOptions) >= 2
    /\ "tags" \in requests

\* the tag a --tag value stands for, given the tags of the repository
TagOf(tagConstraint, tags) ==
    IF isTagConstraintSpecificTag(tagConstraint).specific
    THEN isTagConstraintSpecificTag(tagConstraint).tag
    ELSE getLatestAcceptableTag(tagConstraint, tags).latestTag

\* C7: when --ref is given, the archive request of the run is for the commit
\* SHA if given, else the branch if given, else the tag that --tag resolves
\* to if given, and for the --ref value only when none of the three is given.
C7_RunRefPrecedence ==
    (fetchOptions.GitRef # <<>> /\ archiveReq # NoRequest)
    => LET expected ==
               IF fetchOptions.CommitSha # <<>> THEN fetchOptions.CommitSha
               ELSE IF fetchOptions.BranchName # <<>> THEN fetchOptions.BranchName
               ELSE IF fetchOptions.TagConstraint # <<>>
                    THEN TagOf(fetchOptions.TagConstraint, fetchedTags)
               ELSE TagOf(fetchOptions.GitRef, fetchedTags)
       IN  ArchiveRefOf(archiveReq.url)
             = IF sourceType = "gitlab" THEN QueryEscape(expected) ELSE expected

\* C5: once downloadSourcePathsWithSource has returned, the temporary
\* directory that downloadZipFileWithSource created no longer exists.
C5_TempDirRemoved ==
    pc \in {"assets", "wait", "collect", "verify", "stdout", "exit"}
    => zip.tempDir # "exists"

\* C6: downloadReleaseAssetsWithSource returns a non-nil error exactly when
\* some matched asset failed to download, and the paths of exactly the
\* assets that were downloaded.
C6_PartialFailureIsError ==
    dl.returned
    => /\ (dl.err # "nil") <=> (\E i \in DOMAIN dl.workers : dl.workers[i].err # "nil")
       /\ { dl.assetPaths[k] : k \in DOMAIN dl.assetPaths }
            = { dl.workers[i].assetPath :
                  i \in { j \in DOMAIN dl.workers : dl.workers[j].err = "nil" } }

\* C10: when --release-asset does not compile and equals the name of an asset
\* of the release, the download step does not fail for the regex and that
\* asset is among the matched ones.
C10_LiteralMatchWithoutCompile ==
    (/\ "release" \in requests
     /\ pc # "assets"
     /\ ~RegexpCompiles(fetchOptions.ReleaseAsset)
     /\ \E k \in DOMAIN dl.release : dl.release[k].Name = fetchOptions.ReleaseAsset)
    => /\ runErr # "Invalid asset regex"
       /\ \E k \in DOMAIN dl.matchingAssets :
              dl.matchingAssets[k].Name = fetchOptions.ReleaseAsset

\* the digest of the file at a path is in the set given on the command line
DigestAccepted(assetPath) ==
    MapLookup(fetchOptions.ReleaseAssetChecksums,
              computeChecksum(files[assetPath], fetchOptions.ReleaseAssetChecksumAlgo).checksum)

\* C3: with a non-empty set of acceptable digests, content reaches stdout
\* only after every downloaded asset was verified and found in the set; a run
\* that downloaded an asset whose digest is not in the set ends with the
\* checksum error and an empty stdout.
C3_VerifyBeforeStdout ==
    DOMAIN fetchOptions.ReleaseAssetChecksums # {}
    => /\ stdout # <<>>
            => /\ verified = dl.assetPaths
               /\ \A k \in DOMAIN dl.assetPaths : DigestAccepted(dl.assetPaths[k])
       /\ (/\ pc \in {"stdout", "exit"}
           /\ dl.returned
           /\ \E k \in DOMAIN dl.assetPaths : ~DigestAccepted(dl.assetPaths[k]))
            => /\ pc = "exit"
               /\ runErr = "checksumDoesNotMatch"
               /\ stdout = <<>>

\* C3 witness: --stdout was set, exactly one asset was downloaded, its digest
\* is not in the set, and the run ended with the checksum error
C3_Witness ==
    /\ pc = "exit"
    /\ runErr = "checksumDoesNotMatch"
    /\ fetchOptions.Stdout
    /\ Len(dl.assetPaths) = 1
    /\ ~DigestAccepted(dl.assetPaths[1])
    /\ stdout = <<>>

\* the command line with its --source value in lower case, "auto" when empty
LowerCaseSource(options) ==
    [options EXCEPT !.SourceType = IF @ = <<>> THEN <<"a", "u", "t", "o">> ELSE ToLower(@)]

\* C17: the --source value counts without regard to letter case: a run whose
\* command line with the lower-case spelling passes validateOptions and
\* selects a driver passes validation too and goes on with that driver.
C17_SelectorCaseInsensitive ==
    (/\ pc # "validate"
     /\ validateOptions(LowerCaseSource(fetchOptions)) = "nil"
     /\ SelectSourceType(LowerCaseSource(fetchOptions)).err = "nil")
    => /\ runErr # "invalid --source value"
       /\ sourceType = SelectSourceType(LowerCaseSource(fetchOptions)).type

\* the preambles of getErrorMessage
Preambles ==
    { getErrorMessage(code) : code \in { "invalidTagConstraintExpression",
                                         "invalidGithubTokenOrAccessDenied",
                                         "repoDoesNotExistOrAccessDenied" } }

\* the tags were listed and the --ref or --tag value is not a constraint
MalformedConstraint ==
    LET tagConstraint == IF fetchOptions.GitRef # <<>> THEN fetchOptions.GitRef
                         ELSE fetchOptions.TagConstraint
    IN  /\ tagsReply = "HTTP 200"
        /\ ~isTagConstraintSpecificTag(tagConstraint).specific
        /\ getLatestAcceptableTag(tagConstraint, fetchedTags).err
             = "invalidTagConstraintExpression"

\* C18: a run that failed because the forge answered the tag listing with
\* HTTP 401 or HTTP 404 returns the preamble of getErrorMessage for that
\* code, a run that failed for a malformed tag constraint returns the
\* preamble for invalidTagConstraintExpression, and a run that failed for
\* any other reason returns an error without such a preamble.
C18_FriendlyErrorMapping ==
    (pc = "exit" /\ runErr # "nil")
    => IF tagsReply = "HTTP 401"
       THEN runErr = getErrorMessage("invalidGithubTokenOrAccessDenied")
       ELSE IF tagsReply = "HTTP 404"
       THEN runErr = getErrorMessage("repoDoesNotExistOrAccessDenied")
       ELSE IF MalformedConstraint
       THEN runErr = getErrorMessage("invalidTagConstraintExpression")
       ELSE runErr \notin Preambles

\* how many results for an asset path are in the sequence
ResultsOf(assetPath, seq) ==
    Cardinality({ k \in DOMAIN seq : seq[k] = assetPath })

\* the workers for an asset path that have sent their result
SentFor(assetPath) ==
    { i \in DOMAIN dl.workers : /\ dl.workers[i].assetPath = assetPath
                                /\ dl.workers[i].pc \in {"deferred", "done"} }

\* C21: every worker sends one result and no more, the channel is closed and
\* read only when every worker has signalled that it is done, no result is
\* sent on the closed channel, and on return the paths and the recorded
\* errors are as many as the matched assets.
C21_FanOutJoin ==
    /\ [](/\ \A i \in DOMAIN dl.workers :
               ResultsOf(dl.workers[i].assetPath,
                         [k \in DOMAIN dl.results |-> dl.results[k].assetPath]
                           \o dl.assetPaths \o dl.errorStrs)
                 = Cardinality(SentFor(dl.workers[i].assetPath))
          /\ (dl.closed \/ dl.returned)
               => \A i \in DOMAIN dl.workers : dl.workers[i].pc = "done"
          /\ dl.returned
               => Len(dl.assetPaths) + Len(dl.errorStrs) = Len(dl.matchingAssets))
    /\ [][/\ dl.closed => Len(dl'.results) <= Len(dl.results)
          /\ \A i \in DOMAIN dl.workers :
               WorkerSend(i) => Len(dl'.results) = Len(dl.results) + 1]_vars

\* C21 witness: two assets were matched, one download failed and one did
\* not, and the function has returned
C21_Witness ==
    /\ dl.returned
    /\ Len(dl.matchingAssets) = 2
    /\ Len(dl.assetPaths) = 1
    /\ Len(dl.errorStrs) = 1

\* C22: when every DownloadReleaseAsset call returns, the download step
\* returns, whatever the order of the workers' steps and whichever downloads
\* fail; a worker that has its result to send finds room in the channel.
C22_FanOutReturns ==
    /\ [](\A i \in DOMAIN dl.workers :
            dl.workers[i].pc = "send" => Len(dl.results) < Len(dl.matchingAssets))
    /\ (pc = "wait" ~> dl.returned)

\* C22 witness: both workers of a release with two matched assets have sent,
\* both downloads failed, and the function has returned
C22_Witness ==
    /\ dl.returned
    /\ Len(dl.workers) = 2
    /\ \A i \in DOMAIN dl.workers : dl.workers[i].err # "nil"

\* C23: the workers of a download step have destination paths that differ
\* from each other: no file is written by two workers.
C23_ExclusiveOwnership ==
    \A i, j \in DOMAIN dl.workers :
        i # j => dl.workers[i].assetPath # dl.workers[j].assetPath

\* C28: an archive, release or asset request is issued only in a run whose
\* tag listing was answered with the tags, whatever reference was given; a
\* run whose tag listing failed ends with an error, having issued no other
\* request and written no file.
C28_TagListingGatesFetch ==
    /\ (requests \ {"tags"} # {} \/ archiveReq # NoRequest) => tagsReply = "HTTP 200"
    /\ tagsReply \notin {"none", "HTTP 200"}
         => /\ pc = "exit"
            /\ runErr # "nil"
            /\ requests = {"tags"}
            /\ archiveReq = NoRequest
            /\ files = <<>>
            /\ zip.tempDir = "none"
            /\ zip.extracted = {}

\* C28 witness: only --commit was given, the tag listing failed, and the run
\* ended with that error
C28_Witness ==
    /\ fetchOptions.CommitSha # <<>>
    /\ fetchOptions.GitRef = <<>>
    /\ fetchOptions.TagConstraint = <<>>
    /\ fetchOptions.BranchName = <<>>
    /\ tagsReply = "HTTP 500"
    /\ pc = "exit"
    /\ runErr = "Error fetching tags"

----------------------------------------------------------------------------
(* The archive extractor: shouldExtractPathInZip and extractFiles *)

\* filepath.Clean, the elements that remain: "." and empty elements are
\* dropped, ".." removes the element before it, is dropped at the root of a
\* rooted path and is kept at the start of a path that is not rooted
RECURSIVE CleanElements(_, _, _)
CleanElements(parts, kept, rooted) ==
    IF parts = <<>> THEN kept
    ELSE IF Head(parts) = <<>> \/ Head(parts) = <<".">>
    THEN CleanElements(Tail(parts), kept, rooted)
    ELSE IF Head(parts) = <<".", ".">>
    THEN IF kept # <<>> /\ kept[Len(kept)] # <<".", ".">>
         THEN CleanElements(Tail(parts), SubSeq(kept, 1, Len(kept) - 1), rooted)
         ELSE IF rooted THEN CleanElements(Tail(parts), kept, rooted)
         ELSE CleanElements(Tail(parts), Append(kept, Head(parts)), rooted)
    ELSE CleanElements(Tail(parts), Append(kept, Head(parts)), rooted)

\* filepath.Clean
Clean(path) ==
    LET rooted == path # <<>> /\ path[1] = "/"
        kept   == CleanElements(SplitSlash(path), <<>>, rooted)
    IN  IF rooted THEN <<"/">> \o JoinSlash(kept)
        ELSE IF kept = <<>> THEN <<".">>
        ELSE JoinSlash(kept)

\* filepath.Join of two elements: empty elements are ignored, the result is cleaned
FilepathJoin(a, b) ==
    IF a = <<>> /\ b = <<>> THEN <<>>
    ELSE IF a = <<>> THEN Clean(b)
    ELSE IF b = <<>> THEN Clean(a)
    ELSE Clean(a \o <<"/">> \o b)

\* strings.TrimPrefix
TrimPrefix(s, prefix) ==
    IF HasPrefix(s, prefix) THEN SubSeq(s, Len(prefix) + 1, Len(s)) ELSE s

\* zip.File.FileInfo().IsDir(): archive/zip gives the directory mode to the
\* entries whose name ends with a slash
IsDir(f) == f.Name # <<>> /\ f.Name[Len(f.Name)] = "/"

\* a selection by the bare prefix, without the slash that ends a directory name
shouldExtractPathInZip_BarePrefix(pathPrefix, zipPath) ==
    HasPrefix(zipPath.Name, pathPrefix)

\* part_011:12-30
shouldExtractPathInZip(pathPrefix, zipPath) ==
    \/ ~IsDir(zipPath) /\ zipPath.Name = pathPrefix
    \/ HasPrefix(zipPath.Name, pathPrefix \o <<"/">>)

\* the directories on the way from the root to a cleaned rooted path, itself included
Ancestors(path) ==
    LET parts == CleanElements(SplitSlash(path), <<>>, TRUE)
    IN  { <<"/">> \o JoinSlash(SubSeq(parts, 1, k)) : k \in 0..Len(parts) }

\* os.MkdirAll on the local file system fs: fails when a file is in the way
MkdirAll(fs, path) ==
    IF \E a \in Ancestors(path) : a \in DOMAIN fs.files
    THEN [fs |-> fs, err |-> "MkdirAll"]
    ELSE [fs |-> [fs EXCEPT !.dirs = @ \cup Ancestors(path)], err |-> "nil"]

\* os.WriteFile: fails on a directory and where the parent directory is missing
WriteFile(fs, path, body) ==
    IF path \in fs.dirs \/ ~((Ancestors(path) \ {path}) \subseteq fs.dirs)
    THEN [fs |-> fs, err |-> "WriteFile"]
    ELSE [fs |-> [fs EXCEPT !.files = (path :> body) @@ @], err |-> "nil"]

\* the archives of the model, as lists of entries; "r/" is the top-level
\* directory that a forge puts first
Archives ==
    LET root == <<"r", "/">>
        dir(name)        == [Name |-> root \o name \o <<"/">>, Body |-> ""]
        file(name, body) == [Name |-> root \o name, Body |-> body]
        top == [Name |-> root, Body |-> ""]
    IN  { <<>>,
          \* a tree with a directory f, a sibling f2 and a file z
          << top, dir(<<"f">>), file(<<"f", "/", "x">>, "hello"),
             dir(<<"f", "2">>), file(<<"f", "2", "/", "y">>, "world"),
             file(<<"z">>, "world") >>,
          \* no entry for the directory f
          << top, file(<<"f", "/", "x">>, "hello") >>,
          \* an entry that climbs out of f
          << top, dir(<<"f">>),
             file(<<"f", "/", ".", ".", "/", ".", ".", "/", "e">>, "hello") >> }

\* the values of filesToExtractFromZipPath
PathsToExtract == { <<"/">>, <<"/", "f">>, <<"/", "f", "/", "x">>, <<"z">> }

\* the values of localPath: an existing directory, a path that does not
\* exist in it, and a path whose parent does not exist
LocalPaths == { <<"/", "d">>, <<"/", "d", "/", "n">>, <<"/", "m", "/", "n">> }

\* the local file system before the call
InitialFs == [dirs |-> { <<"/">>, <<"/", "d">> }, files |-> <<>>]

InitExtract ==
    /\ extCall \in { [pc |-> "call", archive |-> a, filesToExtract |-> x, localPath |-> l,
                      pathPrefix |-> <<>>, idx |-> 1, fileCount |-> 0, err |-> "nil",
                      written |-> {}, targets |-> {}, fs |-> InitialFs,
                      readerOpen |-> FALSE, handles |-> {}] :
                     a \in Archives, x \in PathsToExtract, l \in LocalPaths }
    /\ tagCall = IdleCall
    /\ sumCall = IdleCall
    /\ archCall = IdleCall
    /\ pageCall = IdleCall
    /\ urlCall = IdleCall
    /\ RunIdle

\* part_011:35-51: zip.OpenReader, which may fail, and the path prefix from
\* the first entry; an archive without entries has no r.File[0]. The reader
\* is open until the deferred r.Close() of part_011:40 runs
ExtractOpen ==
    /\ extCall.pc = "call"
    /\ \/ extCall' = [extCall EXCEPT !.pc = "done", !.err = "OpenReader"]
       \/ extCall' = IF Len(extCall.archive) = 0
                     THEN [extCall EXCEPT !.pc = "panic"]
                     ELSE [extCall EXCEPT
                             !.pc = "loop",
                             !.readerOpen = TRUE,
                             !.pathPrefix = FilepathJoin(extCall.archive[1].Name,
                                                         extCall.filesToExtract)]
    /\ UNCHANGED <<tagCall, sumCall, archCall, pageCall, urlCall, runVars>>

\* part_011:58-90: one turn of the loop over r.File; f.Open() gives a
\* handle on the entry, for which the loop has no Close
ExtractEntry ==
    /\ extCall.pc = "loop"
    /\ extCall.idx <= Len(extCall.archive)
    /\ LET f    == extCall.archive[extCall.idx]
           path == FilepathJoin(extCall.localPath, TrimPrefix(f.Name, extCall.pathPrefix))
           made == IF IsDir(f) THEN MkdirAll(extCall.fs, path)
                               ELSE WriteFile(extCall.fs, path, f.Body)
       IN  extCall' =
             IF ~shouldExtractPathInZip(extCall.pathPrefix, f)
             THEN [extCall EXCEPT !.idx = @ + 1]
             ELSE IF made.err # "nil"
             THEN [extCall EXCEPT !.pc = "done", !.err = made.err, !.readerOpen = FALSE,
                                  !.handles = IF IsDir(f) THEN @ ELSE @ \cup {extCall.idx}]
             ELSE [extCall EXCEPT
                     !.idx = @ + 1,
                     !.fs = made.fs,
                     !.handles = IF IsDir(f) THEN @ ELSE @ \cup {extCall.idx},
                     !.written = @ \cup {extCall.idx},
                     !.targets = @ \cup {path},
                     !.fileCount = IF IsDir(f) THEN @ ELSE @ + 1]
    /\ UNCHANGED <<tagCall, sumCall, archCall, pageCall, urlCall, runVars>>

\* part_011:92
ExtractReturn ==
    /\ extCall.pc = "loop"
    /\ extCall.idx > Len(extCall.archive)
    /\ extCall' = [extCall EXCEPT !.pc = "done", !.readerOpen = FALSE]
    /\ UNCHANGED <<tagCall, sumCall, archCall, pageCall, urlCall, runVars>>

NextExtract == ExtractOpen \/ ExtractEntry \/ ExtractReturn

SpecExtract == InitExtract /\ [][NextExtract]_vars

\* s begins with the elements of p and has more
ProperPrefix(p, s) == Len(p) < Len(s) /\ SubSeq(s, 1, Len(p)) = p

\* the entry is the requested path itself, as a file, or lies below it:
\* stated on the elements of the names, not on their characters
BelowRequested(f) ==
    LET P == SplitSlash(FilepathJoin(extCall.archive[1].Name, extCall.filesToExtract))
    IN  \/ ~IsDir(f) /\ SplitSlash(f.Name) = P
        \/ ProperPrefix(P, SplitSlash(f.Name))

\* C11: the entries written to disk are the files named P and the entries
\* below P, where P is the top-level directory joined with the requested
\* path: of the entries the loop has passed, exactly those were written. An
\* entry of a sibling directory whose name starts with the requested name is
\* not written.
C11_EntrySelection ==
    extCall.pc \in {"loop", "done"}
    => \A i \in 1..Len(extCall.archive) :
           i \in extCall.written
             <=> (i < extCall.idx /\ BelowRequested(extCall.archive[i]))

\* C11 witness: /f was extracted from the archive with the sibling f2; the
\* entries of f were written and the entries of f2 were not
C11_Witness ==
    /\ extCall.pc = "done"
    /\ extCall.err = "nil"
    /\ extCall.filesToExtract = <<"/", "f">>
    /\ extCall.written # {}
    /\ \E i \in 1..Len(extCall.archive) :
         /\ i \notin extCall.written
         /\ HasPrefix(extCall.archive[i].Name, extCall.pathPrefix)

\* the path is the destination or lies in it
Inside(localPath, path) == path = localPath \/ HasPrefix(path, localPath \o <<"/">>)

\* C12: every file and directory the extractor made lies inside localPath,
\* and an entry whose name resolves outside localPath ends the extraction
\* with an error.
C12_NoPathTraversal ==
    /\ \A path \in extCall.targets : Inside(extCall.localPath, path)
    /\ (extCall.pc = "done" /\ extCall.err = "nil")
         => \A i \in 1..Len(extCall.archive) :
               BelowRequested(extCall.archive[i])
                 => Inside(extCall.localPath,
                           FilepathJoin(extCall.localPath,
                                        TrimPrefix(extCall.archive[i].Name,
                                                   extCall.pathPrefix)))

\* C13: when the requested path is a regular file of the archive and
\* localPath is not an existing directory, the call returns no error and a
\* count of one, the parent directory of localPath exists, and the one file
\* written is localPath.
C13_SingleFileTarget ==
    (/\ extCall.pc = "done"
     /\ extCall.err # "OpenReader"
     /\ extCall.localPath \notin InitialFs.dirs
     /\ \E i \in 1..Len(extCall.archive) :
          /\ ~IsDir(extCall.archive[i])
          /\ extCall.archive[i].Name = extCall.pathPrefix)
    => /\ extCall.err = "nil"
       /\ extCall.fileCount = 1
       /\ DOMAIN extCall.fs.files = {extCall.localPath}
       /\ Ancestors(extCall.localPath) \ {extCall.localPath} \subseteq extCall.fs.dirs

\* C26: a call on an archive that has no entries ends by returning an error
\* to its caller, and has written nothing.
C26_EmptyArchiveIsError ==
    (extCall.pc \notin {"idle", "call"} /\ Len(extCall.archive) = 0)
    => /\ extCall.pc = "done"
       /\ extCall.err # "nil"
       /\ extCall.fs = InitialFs

\* C27: when extractFiles has returned, with or without an error, the zip
\* reader and the handle of every entry it opened are closed.
C27_HandlesReleased ==
    extCall.pc = "done"
    => /\ ~extCall.readerOpen
       /\ extCall.handles = {}

----------------------------------------------------------------------------
(* file.go: the extractor that knows symbolic links, in two passes *)

\* zip.File of this extractor: an entry is a directory, a regular file with
\* its content, or a symbolic link with the link text as its content
IsSymLink(f) == f.Kind = "symlink"

\* filepath.Dir: the path without its last element
Dir(path) ==
    IF SubSeq(SplitSlash(path), 1, Len(SplitSlash(path)) - 1) \in { <<>>, << <<>> >> }
    THEN IF HasPrefix(path, <<"/">>) THEN <<"/">> ELSE <<".">>
    ELSE Clean(JoinSlash(SubSeq(SplitSlash(path), 1, Len(SplitSlash(path)) - 1)))

\* FileInfo.Name: the last element of the entry's name
BaseName(name) ==
    LET parts == SelectSeq(SplitSlash(name), LAMBDA e : e # <<>>)
    IN  IF parts = <<>> THEN <<>> ELSE parts[Len(parts)]

\* a path of the local file system names a directory, a file, a link or nothing
Exists(fs, path) ==
    path \in fs.dirs \/ path \in DOMAIN fs.files \/ path \in DOMAIN fs.links

\* filepath.EvalSymlinks on a path whose last element may be a link: the
\* links are followed, at most hops of them; no path when the end is missing
RECURSIVE EvalSymlinks(_, _, _)
EvalSymlinks(fs, path, hops) ==
    IF path \in DOMAIN fs.links
    THEN IF hops = 0 THEN [path |-> <<>>, err |-> "EvalSymlinks"]
         ELSE EvalSymlinks(fs, fs.links[path], hops - 1)
    ELSE IF Exists(fs, path) THEN [path |-> path, err |-> "nil"]
    ELSE [path |-> <<>>, err |-> "EvalSymlinks"]

\* file.go:160-175: os.Symlink fails where something is at the path already
\* and where the parent directory is missing
writeFileAsSymLink(fs, f, path) ==
    IF Exists(fs, path) \/ Dir(path) \notin fs.dirs
    THEN [fs |-> fs, err |-> "Failed to create symlink"]
    ELSE [fs |-> [fs EXCEPT !.links = (path :> FilepathJoin(Dir(path), f.Body)) @@ @],
          err |-> "nil"]

\* file.go:278-314: the directories and the files below source are made
\* below destination; a link below source is read through (ioutil.ReadFile)
copyFolderContents(fs, source, destination) ==
    LET Below(S)  == { p \in S : HasPrefix(p, source \o <<"/">>) }
        To(p)     == destination \o SubSeq(p, Len(source) + 1, Len(p))
        Read(p)   == EvalSymlinks(fs, p, Cardinality(DOMAIN fs.links))
        copied    == Below(DOMAIN fs.files) \cup Below(DOMAIN fs.links)
        Content(p) == fs.files[Read(p).path]
    IN  IF \E p \in copied : Read(p).err # "nil" \/ Read(p).path \notin DOMAIN fs.files
        THEN [fs |-> fs, err |-> "copyFile"]
        ELSE [fs |-> [fs EXCEPT
                        !.dirs  = @ \cup { To(p) : p \in Below(fs.dirs) },
                        !.files = [q \in { To(p) : p \in copied } |->
                                     Content(CHOOSE p \in copied : To(p) = q)] @@ @],
              err |-> "nil"]

\* file.go:177-208: the link is replaced by what it leads to, a copy of the
\* file or of the directory's contents
evalSymLinkAndCopyFiles(fs, f, path) ==
    LET Replace(target, symlinkPath) ==
            IF target.err # "nil" THEN [fs |-> fs, err |-> "Failed to resolve symlink"]
            ELSE IF ~Exists(fs, symlinkPath) THEN [fs |-> fs, err |-> "Failed to delete symlink"]
            ELSE IF target.path \in fs.dirs
            THEN copyFolderContents(
                     [fs EXCEPT !.links = [q \in DOMAIN @ \ {symlinkPath} |-> @[q]],
                                !.dirs = @ \cup {symlinkPath}],
                     target.path, symlinkPath)
            ELSE [fs |-> [fs EXCEPT
                            !.links = [q \in DOMAIN @ \ {symlinkPath} |-> @[q]],
                            !.files = (symlinkPath :> fs.files[target.path]) @@ @],
                  err |-> "nil"]
    IN  The({ Replace(target, FilepathJoin(Dir(path), BaseName(f.Name))) :
                target \in {EvalSymlinks(fs, path, Cardinality(DOMAIN fs.links))} })

\* an extractor that resolves a link as soon as it has written it
writeFileFromZip_ResolveAtOnce(fs, f, path) ==
    IF ~IsSymLink(f) THEN WriteFile(fs, path, f.Body)
    ELSE IF writeFileAsSymLink(fs, f, path).err # "nil" THEN writeFileAsSymLink(fs, f, path)
    ELSE evalSymLinkAndCopyFiles(writeFileAsSymLink(fs, f, path).fs, f, path)

\* file.go:141-158
writeFileFromZip(fs, f, path) ==
    IF IsSymLink(f) THEN writeFileAsSymLink(fs, f, path)
    ELSE WriteFile(fs, path, f.Body)

\* the archives with links: "r/" is the top-level directory
LinkArchives ==
    LET root == <<"r", "/">>
        top  == [Name |-> root, Kind |-> "dir", Body |-> ""]
        dir(name)          == [Name |-> root \o name \o <<"/">>, Kind |-> "dir", Body |-> ""]
        file(name, body)   == [Name |-> root \o name, Kind |-> "file", Body |-> body]
        link(name, target) == [Name |-> root \o name, Kind |-> "symlink", Body |-> target]
    IN  UNION {
          { \* the target before the link, and a file after it
            << top, file(<<"a">>, body), link(<<"l">>, <<"a">>), file(<<"b">>, "world") >>,
            \* the target after the link
            << top, link(<<"l">>, <<"a">>), file(<<"a">>, body) >>,
            \* a link to a directory that comes after it
            << top, link(<<"l">>, <<"g">>), dir(<<"g">>), file(<<"g", "/", "x">>, body) >>,
            \* a link to a link to a file
            << top, link(<<"l">>, <<"k">>), link(<<"k">>, <<"a">>), file(<<"a">>, body) >>,
            \* a link in a directory to a file outside of it
            << top, dir(<<"f">>), link(<<"f", "/", "l">>, <<".", ".", "/", "z">>),
               file(<<"z">>, body) >>,
            \* a link to nothing
            << top, link(<<"l">>, <<"n">>), file(<<"a">>, body) >> } :
          body \in FileContents }

\* the values of filesToExtractFromZipPath for these archives
LinkPathsToExtract == { <<"/">>, <<"/", "f">> }

InitLink ==
    /\ extCall \in { [pc |-> "call", archive |-> a, filesToExtract |-> x,
                      localPath |-> <<"/", "d">>, pathPrefix |-> <<>>, idx |-> 1,
                      err |-> "nil", written |-> {},
                      fs |-> [dirs |-> InitialFs.dirs, files |-> <<>>, links |-> <<>>]] :
                     a \in LinkArchives, x \in LinkPathsToExtract }
    /\ tagCall = IdleCall
    /\ sumCall = IdleCall
    /\ archCall = IdleCall
    /\ pageCall = IdleCall
    /\ urlCall = IdleCall
    /\ RunIdle

\* file.go:85, 105: strings.Index(f.Name, pathPrefix) == 0
Selected(pathPrefix, f) == HasPrefix(f.Name, pathPrefix)

\* file.go:87, 107
LocalPathOf(f) ==
    FilepathJoin(extCall.localPath, TrimPrefix(f.Name, extCall.pathPrefix))

\* file.go:63-78: zip.OpenReader, which may fail, and the path prefix
LinkOpen ==
    /\ extCall.pc = "call"
    /\ \/ extCall' = [extCall EXCEPT !.pc = "done", !.err = "OpenReader"]
       \/ extCall' = [extCall EXCEPT
                        !.pc = "files",
                        !.pathPrefix = FilepathJoin(extCall.archive[1].Name,
                                                    extCall.filesToExtract)]
    /\ UNCHANGED <<tagCall, sumCall, archCall, pageCall, urlCall, runVars>>

\* file.go:82-99: one turn of the first loop; the error of os.MkdirAll is
\* not looked at; after the last entry the second loop begins
LinkWriteEntry ==
    /\ extCall.pc = "files"
    /\ IF extCall.idx > Len(extCall.archive)
       THEN extCall' = [extCall EXCEPT !.pc = "symlinks", !.idx = 1]
       ELSE LET f    == extCall.archive[extCall.idx]
                made == IF f.Kind = "dir" THEN MkdirAll(extCall.fs, LocalPathOf(f))
                        ELSE writeFileFromZip(extCall.fs, f, LocalPathOf(f))
            IN  extCall' =
                  IF ~Selected(extCall.pathPrefix, f)
                  THEN [extCall EXCEPT !.idx = @ + 1]
                  ELSE IF made.err # "nil" /\ f.Kind # "dir"
                  THEN [extCall EXCEPT !.pc = "done", !.err = made.err]
                  ELSE [extCall EXCEPT !.idx = @ + 1, !.fs = made.fs,
                                       !.written = @ \cup {extCall.idx}]
    /\ UNCHANGED <<tagCall, sumCall, archCall, pageCall, urlCall, runVars>>

\* file.go:101-118: one turn of the second loop, and the return after it
LinkResolveEntry ==
    /\ extCall.pc = "symlinks"
    /\ IF extCall.idx > Len(extCall.archive)
       THEN extCall' = [extCall EXCEPT !.pc = "done"]
       ELSE LET f    == extCall.archive[extCall.idx]
                made == evalSymLinkAndCopyFiles(extCall.fs, f, LocalPathOf(f))
            IN  extCall' =
                  IF ~(Selected(extCall.pathPrefix, f) /\ IsSymLink(f))
                  THEN [extCall EXCEPT !.idx = @ + 1]
                  ELSE IF made.err # "nil"
                  THEN [extCall EXCEPT !.pc = "done", !.err = made.err]
                  ELSE [extCall EXCEPT !.idx = @ + 1, !.fs = made.fs]
    /\ UNCHANGED <<tagCall, sumCall, archCall, pageCall, urlCall, runVars>>

NextLink == LinkOpen \/ LinkWriteEntry \/ LinkResolveEntry

SpecLink == InitLink /\ [][NextLink]_vars

\* the link of entry i has been replaced by what it leads to
Resolved(i) ==
    /\ i \in extCall.written
    /\ IsSymLink(extCall.archive[i])
    /\ LocalPathOf(extCall.archive[i]) \notin DOMAIN extCall.fs.links

\* the entry that the link text of entry i names, when it is a selected
\* regular file of the archive; 0 when there is none
TargetEntry(i) ==
    LET name == FilepathJoin(Dir(extCall.archive[i].Name), extCall.archive[i].Body)
        hits == { j \in 1..Len(extCall.archive) :
                    /\ extCall.archive[j].Kind = "file"
                    /\ extCall.archive[j].Name = name
                    /\ Selected(extCall.pathPrefix, extCall.archive[j]) }
    IN  IF hits = {} THEN 0 ELSE CHOOSE j \in hits : TRUE

\* C25: a link is resolved only when every selected entry of the archive
\* has been written; a selected link to a selected regular file of the
\* archive, before or after the link in the archive, is resolved without an
\* error and holds the content of that file when the call has returned.
C25_SymlinksAfterFiles ==
    extCall.pc \in {"files", "symlinks", "done"}
    => \A i \in 1..Len(extCall.archive) :
         /\ Resolved(i)
              => \A j \in 1..Len(extCall.archive) :
                   Selected(extCall.pathPrefix, extCall.archive[j]) => j \in extCall.written
         /\ (/\ extCall.pc = "done"
             /\ extCall.err # "OpenReader"
             /\ IsSymLink(extCall.archive[i])
             /\ Selected(extCall.pathPrefix, extCall.archive[i])
             /\ TargetEntry(i) # 0)
              => /\ extCall.err = "nil"
                 /\ LocalPathOf(extCall.archive[i]) \in DOMAIN extCall.fs.files
                 /\ extCall.fs.files[LocalPathOf(extCall.archive[i])]
                      = extCall.archive[TargetEntry(i)].Body

\* C25 witness: the link comes before its target in the archive, the call
\* has returned without error, and the link's path holds the target's content
C25_Witness ==
    /\ extCall.pc = "done"
    /\ extCall.err = "nil"
    /\ \E i \in 1..Len(extCall.archive) :
         /\ IsSymLink(extCall.archive[i])
         /\ TargetEntry(i) > i
         /\ Resolved(i)
         /\ extCall.fs.files[LocalPathOf(extCall.archive[i])]
              = extCall.archive[TargetEntry(i)].Body

----------------------------------------------------------------------------
(* Tag listing: FetchTags of both drivers and getNextUrl *)

\* strings.Split(s, sep) for a separator of one character
RECURSIVE SplitOn(_, _)
SplitOn(s, sep) ==
    IF \A i \in 1..Len(s) : s[i] # sep
    THEN <<s>>
    ELSE LET d == CHOOSE i \in 1..Len(s) : s[i] = sep /\ \A j \in 1..(i - 1) : s[j] # sep
         IN  <<SubSeq(s, 1, d - 1)>> \o SplitOn(SubSeq(s, d + 1, Len(s)), sep)

\* nextLinkRegex.FindStringSubmatch, github.go:253 and factory.go:100:
\* <(.+?)>;\s*rel="next" -- the leftmost '<', then the shortest text that
\* the rest of the pattern follows; <<>> stands for no match
FindNextLink(link) ==
    LET relNext == <<"r", "e", "l", "=", "\"", "n", "e", "x", "t", "\"">>
        Match(i, j) == /\ link[i] = "<"
                       /\ j >= i + 2 /\ j < Len(link)
                       /\ link[j] = ">" /\ link[j + 1] = ";"
                       /\ HasPrefix(TrimLeft(SubSeq(link, j + 2, Len(link))), relNext)
        I == { i \in 1..Len(link) : \E j \in 1..Len(link) : Match(i, j) }
    IN  IF I = {} THEN <<>>
        ELSE LET i == CHOOSE i \in I : \A k \in I : i <= k
                 j == CHOOSE j \in 1..Len(link) :
                          Match(i, j) /\ \A k \in 1..(j - 1) : ~Match(i, k)
             IN  <<SubSeq(link, i + 1, j - 1)>>

\* a reading of the Link header that follows its first link, whatever its rel
getNextUrl_FirstLink(links) ==
    IF \E j \in 1..Len(links) : links[j] = ">"
    THEN SubSeq(links, 2, (CHOOSE j \in 1..Len(links) :
                              links[j] = ">" /\ \A k \in 1..(j - 1) : links[k] # ">") - 1)
    ELSE <<>>

\* github.go:296-310 and factory.go:146-159
getNextUrl(links) ==
    LET pieces == SplitOn(links, ",")
        hits   == { k \in 1..Len(pieces) : FindNextLink(pieces[k]) # <<>> }
    IN  IF Len(links) = 0 \/ hits = {} THEN <<>>
        ELSE TrimSpace(FindNextLink(pieces[CHOOSE k \in hits : \A h \in hits : k <= h])[1])

\* github.go:92 and gitlab/types.go:616-619: the URL of the first request
TagsUrl(driver) ==
    LET repo == RepoOf(driver)
    IN  IF driver = "gitlab"
        THEN <<"https://">> \o repo.ApiUrl \o <<"/api/v4/projects/">>
               \o encodeProjectPath(repo.Owner, repo.Name)
               \o <<"/repository/tags?per_page=100">>
        ELSE <<"https://">> \o repo.ApiUrl \o <<"/repos/">> \o repo.Owner \o <<"/">>
               \o repo.Name \o <<"/tags?per_page=100">>

\* the URL a forge gives to page k of a tag list
PageUrl(k) == <<"u", "/">> \o Itoa(k)

\* the Link header a forge sends with page k of n. Two layouts lead forward
\* and end at page n: next before last, or prev and first before next. Two
\* do not end: the next link of page n names page n itself, or page 1.
LinkHeader(layout, k, n) ==
    LET link(url, rel) == <<"<">> \o url \o <<">", ";", " ", "r", "e", "l", "=", "\"">>
                            \o rel \o <<"\"">>
        next  == link(PageUrl(k + 1), <<"n", "e", "x", "t">>)
        last  == link(PageUrl(n), <<"l", "a", "s", "t">>)
        prev  == link(PageUrl(k - 1), <<"p", "r", "e", "v">>)
        first == link(PageUrl(1), <<"f", "i", "r", "s", "t">>)
        sep   == <<",", " ">>
        self  == link(PageUrl(k), <<"n", "e", "x", "t">>)
        back  == link(PageUrl(1), <<"n", "e", "x", "t">>)
    IN  IF layout = "next self"
        THEN IF k < n THEN next \o sep \o last ELSE self \o sep \o last
        ELSE IF layout = "next back"
        THEN IF k < n THEN next \o sep \o last ELSE prev \o sep \o back
        ELSE IF n = 1 THEN <<>>
        ELSE IF layout = "next first"
        THEN IF k < n THEN next \o sep \o last ELSE first \o sep \o prev
        ELSE IF k = 1 THEN next \o sep \o last
        ELSE IF k < n THEN prev \o sep \o first \o sep \o next \o sep \o last
        ELSE prev \o sep \o first

\* the tag names one page may hold
PageContents ==
    { <<>>,
      << Spell(<<"v">>, <<1, 0, 1>>), <<"m", "a", "i", "n">> >>,
      << Spell(<<>>, <<2, 0, 0>>), Spell(<<"v">>, <<1, 0>>) >> }

InitPage ==
    /\ pageCall \in { [pc |-> "loop", driver |-> d, layout |-> y, pages |-> g,
                       tagsUrl |-> TagsUrl(d), requested |-> <<>>, tags |-> <<>>,
                       err |-> "nil"] :
                      d \in Drivers, y \in {"next first", "next later"},
                      g \in UNION { [1..n -> PageContents] : n \in 1..MaxPages } }
    /\ tagCall = IdleCall
    /\ sumCall = IdleCall
    /\ archCall = IdleCall
    /\ extCall = IdleCall
    /\ urlCall = IdleCall
    /\ RunIdle

\* the requests of a call that are kept on record: the first MaxRequests
MaxRequests == MaxPages + 2

\* github.go:94-122 and gitlab/types.go:621-649: one turn of the loop; the
\* request fails, or the forge answers with the page at that URL
FetchPage ==
    /\ pageCall.pc = "loop"
    /\ LET n == Len(pageCall.pages)
           k == IF pageCall.tagsUrl = TagsUrl(pageCall.driver) THEN 1
                ELSE CHOOSE k \in 1..n : PageUrl(k) = pageCall.tagsUrl
           semver  == SelectSeq(pageCall.pages[k], LAMBDA name : NewVersion(name).ok)
           nextUrl == getNextUrl(LinkHeader(pageCall.layout, k, n))
           requested == IF Len(pageCall.requested) < MaxRequests
                        THEN Append(pageCall.requested, pageCall.tagsUrl)
                        ELSE pageCall.requested
       IN  \/ pageCall' = [pageCall EXCEPT
                             !.pc = "done",
                             !.requested = requested,
                             !.err = "callApiRaw"]
           \/ pageCall' = [pageCall EXCEPT
                             !.pc = IF nextUrl = <<>> THEN "done" ELSE "loop",
                             !.requested = requested,
                             !.tags = @ \o semver,
                             !.tagsUrl = nextUrl]
    /\ UNCHANGED <<tagCall, sumCall, archCall, extCall, urlCall, runVars>>

NextPage == FetchPage

SpecPage == InitPage /\ [][NextPage]_vars

\* the tag names of the first k pages that are a version, in page order: an
\* optional v, then numbers separated by dots
RECURSIVE TagsOfPages(_, _)
TagsOfPages(pages, k) ==
    LET IsVersion(name) ==
            LET parts == SplitDots(IF name[1] = "v" THEN Tail(name) ELSE name)
            IN  \A i \in 1..Len(parts) : AllDigits(parts[i])
    IN  IF k = 0 THEN <<>>
        ELSE TagsOfPages(pages, k - 1) \o SelectSeq(pages[k], IsVersion)

\* C14: FetchTags requests the pages once each in the order of the next
\* links, starting from the driver's tags URL, and when it returns without
\* error it has requested all N pages and returns the semver tag names of
\* pages 1..N in page order and in-page order.
C14_AllPagesInOrder ==
    LET n == Len(pageCall.pages)
        r == Len(pageCall.requested)
    IN  pageCall.pc \in {"loop", "done"}
        => /\ r <= n
           /\ \A k \in 1..r :
                pageCall.requested[k] = IF k = 1 THEN TagsUrl(pageCall.driver) ELSE PageUrl(k)
           /\ pageCall.err = "nil" => pageCall.tags = TagsOfPages(pageCall.pages, r)
           /\ (pageCall.pc = "done" /\ pageCall.err = "nil") => r = n

\* C14 witness: a list of three pages with a non-semver name on one of them
\* was fetched to its end from the GitLab driver
C14_Witness ==
    /\ pageCall.pc = "done"
    /\ pageCall.err = "nil"
    /\ pageCall.driver = "gitlab"
    /\ pageCall.layout = "next later"
    /\ Len(pageCall.pages) = 3
    /\ Len(pageCall.requested) = 3
    /\ Len(pageCall.tags) = 3
    /\ \E k \in 1..3 : \E i \in 1..Len(pageCall.pages[k]) :
           pageCall.pages[k][i] = <<"m", "a", "i", "n">>

\* the tag lists whose names are no versions: the list FetchTags builds stays
\* as it is for as long as the loop turns
UnversionedContents == { <<>>, << <<"m", "a", "i", "n">> >> }

\* FetchTags called on a forge of one to MaxPages distinct pages, whose next
\* links lead forward or, from the last page, to itself or to the first
InitLoop ==
    /\ pageCall \in { [pc |-> "loop", driver |-> d, layout |-> y, pages |-> g,
                       tagsUrl |-> TagsUrl(d), requested |-> <<>>, tags |-> <<>>,
                       err |-> "nil"] :
                      d \in Drivers,
                      y \in {"next first", "next later", "next self", "next back"},
                      g \in UNION { [1..n -> UnversionedContents] : n \in 1..MaxPages } }
    /\ tagCall = IdleCall
    /\ sumCall = IdleCall
    /\ archCall = IdleCall
    /\ extCall = IdleCall
    /\ urlCall = IdleCall
    /\ RunIdle

\* the loop of FetchTags is straight-line code of one goroutine: while it can
\* take a turn it takes it
SpecLoop == InitLoop /\ [][NextPage]_vars /\ WF_vars(FetchPage)

\* C30: FetchTags returns, for every forge with finitely many distinct tag
\* pages and whatever rel="next" links the pages carry, a link to the page
\* itself or to an earlier page included.
C30_FetchTagsTerminates == <>(pageCall.pc = "done")

----------------------------------------------------------------------------
(* The functions of the source package, called on one URL *)

\* the repository URLs of the model
UrlUniverse ==
    { \* https://github.com/foo/bar
      <<"h", "t", "t", "p", "s", ":", "/", "/", "g", "i", "t", "h", "u", "b", ".", "c",
        "o", "m", "/", "f", "o", "o", "/", "b", "a", "r">>,
      \* http://www.github.com/foo/bar/
      <<"h", "t", "t", "p", ":", "/", "/", "w", "w", "w", ".", "g", "i", "t", "h", "u",
        "b", ".", "c", "o", "m", "/", "f", "o", "o", "/", "b", "a", "r", "/">>,
      \* https://git.corp/foo/bar?x#y
      <<"h", "t", "t", "p", "s", ":", "/", "/", "g", "i", "t", ".", "c", "o", "r", "p",
        "/", "f", "o", "o", "/", "b", "a", "r", "?", "x", "#", "y">>,
      \* curl://github.com/foo/bar
      <<"c", "u", "r", "l", ":", "/", "/", "g", "i", "t", "h", "u", "b", ".", "c", "o",
        "m", "/", "f", "o", "o", "/", "b", "a", "r">>,
      \* github.com/foo/bar
      <<"g", "i", "t", "h", "u", "b", ".", "c", "o", "m", "/", "f", "o", "o", "/", "b",
        "a", "r">>,
      \* git+https://github.com/foo/bar
      <<"g", "i", "t", "+", "h", "t", "t", "p", "s", ":", "/", "/", "g", "i", "t", "h",
        "u", "b", ".", "c", "o", "m", "/", "f", "o", "o", "/", "b", "a", "r">>,
      \* https://gitlab.com/g/s/p.git
      <<"h", "t", "t", "p", "s", ":", "/", "/", "g", "i", "t", "l", "a", "b", ".", "c",
        "o", "m", "/", "g", "/", "s", "/", "p", ".", "g", "i", "t">>,
      \* https://www.GitLab.com/a/b
      <<"h", "t", "t", "p", "s", ":", "/", "/", "w", "w", "w", ".", "G", "i", "t", "L",
        "a", "b", ".", "c", "o", "m", "/", "a", "/", "b">>,
      \* curl://gitlab.com/foo/bar
      <<"c", "u", "r", "l", ":", "/", "/", "g", "i", "t", "l", "a", "b", ".", "c", "o",
        "m", "/", "f", "o", "o", "/", "b", "a", "r">>,
      \* gitlab.com/foo/bar
      <<"g", "i", "t", "l", "a", "b", ".", "c", "o", "m", "/", "f", "o", "o", "/", "b",
        "a", "r">>,
      \* https://gitlab.corp/foo/bar
      <<"h", "t", "t", "p", "s", ":", "/", "/", "g", "i", "t", "l", "a", "b", ".", "c",
        "o", "r", "p", "/", "f", "o", "o", "/", "b", "a", "r">>,
      \* https://github.com/foo
      <<"h", "t", "t", "p", "s", ":", "/", "/", "g", "i", "t", "h", "u", "b", ".", "c",
        "o", "m", "/", "f", "o", "o">>,
      \* ://bad
      <<":", "/", "/", "b", "a", "d">> }

InitUrl ==
    /\ urlCall \in { [pc |-> "call", repoUrl |-> u, driver |-> d, explicitType |-> e,
                      parsed |-> FALSE, repo |-> NoRepo, parseErr |-> "nil",
                      made |-> FALSE, source |-> "none", sourceErr |-> "nil"] :
                     u \in UrlUniverse, d \in Drivers, e \in {"", "auto", "github", "gitlab"} }
    /\ tagCall = IdleCall
    /\ sumCall = IdleCall
    /\ archCall = IdleCall
    /\ extCall = IdleCall
    /\ pageCall = IdleCall
    /\ RunIdle

\* Source.ParseUrl of the driver, source.go:60-78
CallParseUrl ==
    /\ urlCall.pc = "call"
    /\ ~urlCall.parsed
    /\ LET r == ParseUrl(urlCall.driver, urlCall.repoUrl)
       IN  urlCall' = [urlCall EXCEPT !.parsed = TRUE, !.repo = r.repo, !.parseErr = r.err]
    /\ UNCHANGED <<tagCall, sumCall, archCall, extCall, pageCall, runVars>>

\* factory.go:51-65
CallGetSource ==
    /\ urlCall.pc = "call"
    /\ ~urlCall.made
    /\ LET r == GetSource(urlCall.repoUrl, urlCall.explicitType)
       IN  urlCall' = [urlCall EXCEPT !.made = TRUE, !.source = r.driver, !.sourceErr = r.err]
    /\ UNCHANGED <<tagCall, sumCall, archCall, extCall, pageCall, runVars>>

NextUrl == CallParseUrl \/ CallGetSource

SpecUrl == InitUrl /\ [][NextUrl]_vars

\* C15: ParseUrl of either driver returns an error and no Repo for a URL
\* that does not begin with http:// or https://.
C15_OnlyHttpSchemes ==
    (/\ urlCall.pc = "call"
     /\ urlCall.parsed
     /\ ~HasPrefix(urlCall.repoUrl, Text.http)
     /\ ~HasPrefix(urlCall.repoUrl, Text.https))
    => /\ urlCall.parseErr # "nil"
       /\ urlCall.repo = NoRepo

\* the host of a URL of the form scheme://host/..., lower-cased; empty otherwise
LowerHost(repoUrl) ==
    LET parts == SplitSlash(repoUrl)
    IN  IF Len(parts) >= 3 /\ parts[2] = <<>> /\ Len(parts[1]) > 1
           /\ parts[1][Len(parts[1])] = ":"
        THEN ToLower(parts[3]) ELSE <<>>

\* C16: GetSource makes the driver of an explicit type github or gitlab
\* whatever the URL; with the type auto or empty it makes the GitLab driver
\* exactly when the lower-cased host is gitlab.com or www.gitlab.com and the
\* GitHub driver for every other host.
C16_DriverSelection ==
    (urlCall.pc = "call" /\ urlCall.made)
    => /\ urlCall.explicitType \in {"github", "gitlab"}
            => urlCall.sourceErr = "nil" /\ urlCall.source = urlCall.explicitType
       /\ (urlCall.explicitType \in {"", "auto"} /\ urlCall.sourceErr = "nil")
            => urlCall.source =
                 IF LowerHost(urlCall.repoUrl) \in {Text.gitlab, Text.www \o Text.gitlab}
                 THEN "gitlab" ELSE "github"

\* C16 witness: with the type auto, a host that has gitlab in its name and
\* is not gitlab.com got the GitHub driver
C16_Witness ==
    /\ urlCall.pc = "call"
    /\ urlCall.made
    /\ urlCall.explicitType = "auto"
    /\ Contains(LowerHost(urlCall.repoUrl), <<"g", "i", "t", "l", "a", "b">>)
    /\ LowerHost(urlCall.repoUrl) \notin {Text.gitlab, Text.www \o Text.gitlab}
    /\ urlCall.source = "github"

====
